---------------------------- MODULE Spec2Model ----------------------------
(***************************************************************************)
(* Replay engine of the DAG simulation (src/mintedge/dag): the topology    *)
(* (DAGTopology: graph construction, Dijkstra path finding, additive       *)
(* transfer time) and the scheduler (DAGScheduler: one SimPy process per   *)
(* scheduled task, driven by the SimPy event queue).                       *)
(*                                                                         *)
(* Numbers.  The code computes with floats.  The model counts simulated    *)
(* time in ticks of 1/TicksPerUnit time unit, so that                      *)
(*   data_size_bytes / (bandwidth * 1e6 / 8)   is  (bytes * 8) / bandwidth *)
(* ticks and  compute_cost / capacity  is  compute_cost*TicksPerUnit /     *)
(* capacity ticks.  Inputs are drawn so that both quotients are integers   *)
(* (and exactly representable as floats).  Dijkstra weights 1/bandwidth    *)
(* are kept as exact fractions.                                            *)
(***************************************************************************)
EXTENDS Integers, Sequences, FiniteSets, TLC

VARIABLES
    nodes,              \* DAGTopology.nodes: node id -> speed_multiplier
    links,              \* DAGTopology.links: sequence of NetworkLink
    graph,              \* DAGTopology.graph: the networkx Graph
    link_map,           \* DAGTopology._link_map: <<u, v>> -> NetworkLink
    query,              \* the last topology query and what it returned
    task_definitions,   \* DAGScheduler.task_definitions: base id -> TaskDefinition
    base_compute_speed, \* DAGScheduler.base_compute_speed
    scheduled_tasks,    \* DAGScheduler.scheduled_tasks, in dict order
    task_id_map,        \* DAGScheduler._task_id_map
    completion_events,  \* DAGScheduler.completion_events: id -> simpy Event
    conditions,         \* the AllOf condition each waiting process yielded
    pc,                 \* where each task's process (_execute_task) stands
    now,                \* env.now
    queue,              \* env._queue
    eid,                \* env._eid
    task_metrics,       \* MetricsCollector.task_metrics
    completion_order,   \* MetricsCollector._completion_order
    run_state,          \* where DAGScheduler.run() stands
    makespan,           \* what run() returned
    run_error           \* the exception run() ended with

topo_vars == <<nodes, links, graph, link_map>>

input_vars == <<task_definitions, base_compute_speed>>

sim_vars == <<scheduled_tasks, task_id_map, completion_events, conditions, pc,
              now, queue, eid, task_metrics, completion_order>>

run_vars == <<run_state, makespan, run_error>>

-----------------------------------------------------------------------------
(* Optional values and results of calls that may raise *)

None == -1

TicksPerUnit == 1000000

BitsPerByte == 8

Ok(v) == [ok |-> TRUE, value |-> v, error |-> ""]

Raise(e) == [ok |-> FALSE, value |-> None, error |-> e]

Put(f, k, v) == [x \in (DOMAIN f) \cup {k} |-> IF x = k THEN v ELSE f[x]]

EmptyMap == [x \in {} |-> None]

\* F applied to the value of x, x evaluated once
With(x, F(_)) == CHOOSE y \in {F(v) : v \in {x}} : TRUE

Contains(seq, x) == \E i \in 1..Len(seq) : seq[i] = x

-----------------------------------------------------------------------------
(* models.py: NetworkLink *)

NetworkLink(s, t, bw) == [source |-> s, target |-> t, bandwidth |-> bw]

\* NetworkLink.get_transfer_time (lines 102-109), in ticks
LinkTransferTime(link, data_size_bytes) ==
    IF link.bandwidth <= 0
    THEN Raise("ValueError: invalid bandwidth")
    ELSE Ok((data_size_bytes * BitsPerByte) \div link.bandwidth)

-----------------------------------------------------------------------------
(* Exact fractions <<numerator, denominator>> for the Dijkstra weights;     *)
(* float("inf") is <<1, 0>>                                                 *)

Inf == <<1, 0>>

Zero == <<0, 1>>

IsInf(p) == p[2] = 0

FracLess(p, q) ==
    IF IsInf(p) THEN FALSE
    ELSE IF IsInf(q) THEN TRUE
    ELSE p[1] * q[2] < q[1] * p[2]

FracAdd(p, q) ==
    IF IsInf(p) \/ IsInf(q) THEN Inf
    ELSE <<p[1] * q[2] + q[1] * p[2], p[2] * q[2]>>

\* line 55 with every usable link weighing the same (fewest hops preferred)
EdgeWeightPerHop(link) == IF link.bandwidth > 0 THEN <<1, 1>> ELSE Inf

\* topology.py line 55
EdgeWeight(link) == IF link.bandwidth > 0 THEN <<1, link.bandwidth>> ELSE Inf

-----------------------------------------------------------------------------
(* topology.py: DAGTopology._build_graph over a networkx Graph              *)
(* graph = [nodes: set of ids, adj: id -> sequence of neighbours in         *)
(* insertion order, edge: <<u, v>> -> [weight, link]]                       *)

EmptyGraph == [nodes |-> {}, adj |-> EmptyMap, edge |-> EmptyMap]

add_node(g, n) ==
    IF n \in g.nodes THEN g
    ELSE [g EXCEPT !.nodes = @ \cup {n}, !.adj = Put(@, n, <<>>)]

add_edge(g, u, v, attrs) ==
    LET g1 == add_node(add_node(g, u), v)
        au == IF Contains(g1.adj[u], v) THEN g1.adj[u] ELSE Append(g1.adj[u], v)
        a1 == Put(g1.adj, u, au)
        av == IF Contains(a1[v], u) THEN a1[v] ELSE Append(a1[v], u)
    IN [g1 EXCEPT !.adj = Put(a1, v, av),
                  !.edge = Put(Put(@, <<u, v>>, attrs), <<v, u>>, attrs)]

RECURSIVE AddLinksOneOrdering(_, _, _)
\* lines 46-66 with the link stored under (source, target) only
AddLinksOneOrdering(g, lm, ls) ==
    IF ls = <<>> THEN [graph |-> g, link_map |-> lm]
    ELSE LET link == Head(ls) IN
         IF link.source = link.target
         THEN AddLinksOneOrdering(g, Put(lm, <<link.source, link.target>>, link), Tail(ls))
         ELSE AddLinksOneOrdering(
                add_edge(g, link.source, link.target,
                         [weight |-> EdgeWeight(link), link |-> link]),
                Put(lm, <<link.source, link.target>>, link),
                Tail(ls))

RECURSIVE AddLinks(_, _, _)
AddLinks(g, lm, ls) ==
    IF ls = <<>> THEN [graph |-> g, link_map |-> lm]
    ELSE LET link == Head(ls) IN
         IF link.source = link.target
         THEN AddLinks(g, Put(lm, <<link.source, link.target>>, link), Tail(ls))
         ELSE AddLinks(
                add_edge(g, link.source, link.target,
                         [weight |-> EdgeWeight(link), link |-> link]),
                Put(Put(lm, <<link.source, link.target>>, link),
                    <<link.target, link.source>>, link),
                Tail(ls))

RECURSIVE AddNodes(_, _)
AddNodes(g, ns) ==
    IF ns = {} THEN g
    ELSE LET n == CHOOSE x \in ns : TRUE IN AddNodes(add_node(g, n), ns \ {n})

build_graph(ns, ls) == AddLinks(AddNodes(EmptyGraph, DOMAIN ns), EmptyMap, ls)

-----------------------------------------------------------------------------
(* networkx dijkstra_path(G, source, target, weight="weight"), as called by *)
(* DAGTopology.get_path: a heap of (distance, counter, node), neighbours    *)
(* relaxed in adjacency order                                               *)

HeapLess(a, b) == FracLess(a[1], b[1]) \/ (~FracLess(b[1], a[1]) /\ a[2] < b[2])

HeapMin(fringe) == CHOOSE a \in fringe : \A b \in fringe \ {a} : HeapLess(a, b)

\* lines of the inner loop of networkx _dijkstra_multisource for one neighbour
RelaxOne(g, s, v, u) ==
    With(FracAdd(s.dist[v], g.edge[<<v, u>>].weight), LAMBDA vu_dist :
        IF u \in DOMAIN s.dist THEN s
        ELSE IF u \notin DOMAIN s.seen \/ FracLess(vu_dist, s.seen[u])
        THEN [s EXCEPT !.seen = Put(@, u, vu_dist),
                       !.fringe = @ \cup {<<vu_dist, s.c, u>>},
                       !.c = @ + 1,
                       !.paths = Put(@, u, Append(s.paths[v], u))]
        ELSE s)

RECURSIVE Relax(_, _, _, _)
Relax(g, s, v, nbrs) ==
    IF nbrs = <<>> THEN s
    ELSE With(RelaxOne(g, s, v, Head(nbrs)), LAMBDA s1 : Relax(g, s1, v, Tail(nbrs)))

RECURSIVE DijkstraLoop(_, _, _)
DijkstraLoop(g, s, target) ==
    IF s.fringe = {} THEN s
    ELSE With(HeapMin(s.fringe), LAMBDA top :
           IF top[3] \in DOMAIN s.dist
           THEN With([s EXCEPT !.fringe = @ \ {top}], LAMBDA s1 :
                    DijkstraLoop(g, s1, target))
           ELSE IF top[3] = target
           THEN [s EXCEPT !.fringe = @ \ {top}, !.dist = Put(@, top[3], top[1])]
           ELSE With(Relax(g, [s EXCEPT !.fringe = @ \ {top},
                                        !.dist = Put(@, top[3], top[1])],
                           top[3], g.adj[top[3]]),
                     LAMBDA s2 : DijkstraLoop(g, s2, target)))

dijkstra_path(g, source, target) ==
    IF source \notin g.nodes THEN Raise("NodeNotFound")
    ELSE With(DijkstraLoop(g, [dist |-> EmptyMap,
                               seen |-> Put(EmptyMap, source, Zero),
                               fringe |-> {<<Zero, 0, source>>},
                               c |-> 1,
                               paths |-> Put(EmptyMap, source, <<source>>)],
                           target),
              LAMBDA s : IF target \in DOMAIN s.dist THEN Ok(s.paths[target])
                         ELSE Raise("NetworkXNoPath"))

-----------------------------------------------------------------------------
(* topology.py: the queries of DAGTopology *)

get_path(g, source, target) ==
    IF source = target THEN Ok(<<source>>)
    ELSE With(dijkstra_path(g, source, target), LAMBDA r :
             IF r.ok THEN r ELSE Raise("ValueError: " \o r.error))

RECURSIVE PathLinks(_, _)
PathLinks(lm, path) ==
    IF Len(path) < 2 THEN <<>>
    ELSE LET key == <<path[1], path[2]>>
             rest == PathLinks(lm, Tail(path))
         IN IF key \in DOMAIN lm THEN <<lm[key]>> \o rest ELSE rest

get_path_links(g, lm, source, target) ==
    IF source = target
    THEN Ok(IF <<source, target>> \in DOMAIN lm THEN <<lm[<<source, target>>]>> ELSE <<>>)
    ELSE With(get_path(g, source, target), LAMBDA p :
             IF p.ok THEN Ok(PathLinks(lm, p.value)) ELSE p)

\* a bottleneck model instead of the sum: the slowest link alone
RECURSIVE MaxLinkTimes(_, _)
MaxLinkTimes(ls, data_size_bytes) ==
    IF ls = <<>> THEN Ok(0)
    ELSE LET t == LinkTransferTime(Head(ls), data_size_bytes) IN
         IF ~t.ok THEN t
         ELSE LET rest == MaxLinkTimes(Tail(ls), data_size_bytes) IN
              IF rest.ok
              THEN Ok(IF t.value > rest.value THEN t.value ELSE rest.value)
              ELSE rest

\* sum(link.get_transfer_time(data_size_bytes) for link in links)
RECURSIVE SumLinkTimes(_, _)
SumLinkTimes(ls, data_size_bytes) ==
    IF ls = <<>> THEN Ok(0)
    ELSE LET t == LinkTransferTime(Head(ls), data_size_bytes) IN
         IF ~t.ok THEN t
         ELSE LET rest == SumLinkTimes(Tail(ls), data_size_bytes) IN
              IF rest.ok THEN Ok(t.value + rest.value) ELSE rest

get_transfer_time_no_self_loop(g, lm, source, target, data_size_bytes) ==
    IF source = target THEN Ok(0)
    ELSE With(get_path_links(g, lm, source, target), LAMBDA ls :
             IF ~ls.ok THEN ls
             ELSE IF ls.value = <<>> THEN Raise("ValueError: No path links found")
             ELSE SumLinkTimes(ls.value, data_size_bytes))

get_transfer_time(g, lm, source, target, data_size_bytes) ==
    IF source = target
    THEN IF <<source, target>> \in DOMAIN lm
         THEN LinkTransferTime(lm[<<source, target>>], data_size_bytes)
         ELSE Ok(0)
    ELSE With(get_path_links(g, lm, source, target), LAMBDA ls :
             IF ~ls.ok THEN ls
             ELSE IF ls.value = <<>> THEN Raise("ValueError: No path links found")
             ELSE SumLinkTimes(ls.value, data_size_bytes))

-----------------------------------------------------------------------------
(* topology.py / models.py: compute time, in ticks *)

\* ComputeNode.get_compute_time taking a capacity <= 0 for no work at all
NodeComputeTimeUnchecked(speed_multiplier, compute_cost, base_speed) ==
    IF base_speed * speed_multiplier <= 0 THEN Ok(0)
    ELSE Ok((compute_cost * TicksPerUnit) \div (base_speed * speed_multiplier))

\* ComputeNode.get_compute_time
NodeComputeTime(speed_multiplier, compute_cost, base_speed) ==
    LET capacity == base_speed * speed_multiplier IN
    IF capacity <= 0 THEN Raise("ValueError: invalid capacity")
    ELSE Ok((compute_cost * TicksPerUnit) \div capacity)

\* DAGTopology.get_compute_time
get_compute_time(ns, node_id, compute_cost, base_speed) ==
    IF node_id \notin DOMAIN ns THEN Raise("ValueError: Unknown node")
    ELSE NodeComputeTime(ns[node_id], compute_cost, base_speed)

-----------------------------------------------------------------------------
(* Task ids are strings; the model keeps them as sequences of characters    *)
(* so that rsplit and startswith compute on them.                           *)

Digits == <<"0", "1", "2", "3", "4", "5", "6", "7", "8", "9">>

\* "T<i>"
Tid(i) == <<"T", Digits[i + 1]>>

\* "<base>_<tag>"
WithSuffix(base, tag) == base \o <<"_">> \o tag

\* s.rsplit("_", 1)
rsplit1(s) ==
    LET us == {i \in 1..Len(s) : s[i] = "_"} IN
    IF us = {} THEN <<s>>
    ELSE LET p == CHOOSE i \in us : \A j \in us : j <= i IN
         <<SubSeq(s, 1, p - 1), SubSeq(s, p + 1, Len(s))>>

\* parts[1].startswith("c")
startswith_c(t) == Len(t) >= 1 /\ t[1] = "c"

\* lines 66-71 of _get_base_task_id
ParseBaseTaskId(scheduled_task_id) ==
    LET parts == rsplit1(scheduled_task_id) IN
    IF Len(parts) = 2 /\ startswith_c(parts[2]) THEN parts[1] ELSE scheduled_task_id

\* DAGScheduler._get_base_task_id, reading the cache
get_base_task_id(idmap, scheduled_task_id) ==
    IF scheduled_task_id \in DOMAIN idmap THEN idmap[scheduled_task_id]
    ELSE ParseBaseTaskId(scheduled_task_id)

\* the cache after _get_base_task_id(id) for each id of the sequence
RECURSIVE Cached(_, _)
Cached(idmap, ids) ==
    IF ids = <<>> THEN idmap
    ELSE Cached(IF Head(ids) \in DOMAIN idmap THEN idmap
                ELSE Put(idmap, Head(ids), ParseBaseTaskId(Head(ids))),
                Tail(ids))

\* lines 90-91 of _get_predecessors
CellSuffix(scheduled_task_id) ==
    LET parts == rsplit1(scheduled_task_id) IN
    IF Len(parts) = 2 /\ startswith_c(parts[2]) THEN parts[2] ELSE <<>>

ScheduledIds(tasks) == {tasks[i].task_id : i \in 1..Len(tasks)}

\* lines 93-103 looking every predecessor up under its bare id
MapPredecessorsBare(pred_base_ids, cell_suffix, sched_ids) ==
    SelectSeq(pred_base_ids, LAMBDA p : p \in sched_ids)

\* lines 93-103
RECURSIVE MapPredecessors(_, _, _)
MapPredecessors(pred_base_ids, cell_suffix, sched_ids) ==
    IF pred_base_ids = <<>> THEN <<>>
    ELSE LET pred_scheduled_id ==
                 IF cell_suffix # <<>> THEN WithSuffix(Head(pred_base_ids), cell_suffix)
                 ELSE Head(pred_base_ids)
             rest == MapPredecessors(Tail(pred_base_ids), cell_suffix, sched_ids)
         IN IF pred_scheduled_id \in sched_ids THEN <<pred_scheduled_id>> \o rest
            ELSE rest

\* DAGScheduler._get_predecessors
get_predecessors(defs, tasks, idmap, scheduled_task_id) ==
    LET base_task_id == get_base_task_id(idmap, scheduled_task_id) IN
    IF base_task_id \notin DOMAIN defs THEN <<>>
    ELSE IF defs[base_task_id].predecessors = <<>> THEN <<>>
    ELSE MapPredecessors(defs[base_task_id].predecessors,
                         CellSuffix(scheduled_task_id), ScheduledIds(tasks))

\* TaskDefinition.get_data_to_successor
get_data_to_successor(task_def, successor_id) ==
    IF successor_id \in DOMAIN task_def.edge_weights
    THEN task_def.edge_weights[successor_id] ELSE 0

\* DAGScheduler._get_data_from_predecessor
get_data_from_predecessor(defs, idmap, pred_task_id, current_task_id) ==
    LET pred_base_id == get_base_task_id(idmap, pred_task_id)
        current_base_id == get_base_task_id(idmap, current_task_id)
    IN IF pred_base_id \notin DOMAIN defs THEN 0
       ELSE get_data_to_successor(defs[pred_base_id], current_base_id)

-----------------------------------------------------------------------------
(* simpy: the event queue.  An entry is (time, priority, eid, event); the   *)
(* event is named by its kind and the task it belongs to.                   *)
(*   Initialize  starts a task's process            (URGENT)                *)
(*   AllOf       the condition a process waits on                           *)
(*   Timeout     env.timeout(delay) of a process                            *)
(*   Completion  completion_events[task]                                    *)
(*   Process     the process itself, when its generator ends or raises      *)

URGENT == 0

NORMAL == 1

\* the mutable objects of a replay, threaded through one resumption
World == [tasks |-> scheduled_tasks, idmap |-> task_id_map,
          cev |-> completion_events, cond |-> conditions, pc |-> pc,
          queue |-> queue, eid |-> eid,
          metrics |-> task_metrics, order |-> completion_order]

\* Environment.schedule
Schedule(w, time, priority, kind, task, ok, error) ==
    [w EXCEPT !.queue = @ \cup {[time |-> time, priority |-> priority, eid |-> w.eid,
                                 kind |-> kind, task |-> task, ok |-> ok,
                                 error |-> error]},
              !.eid = @ + 1]

\* heap order of env._queue
Before(e, f) ==
    \/ e.time < f.time
    \/ e.time = f.time /\ e.priority < f.priority
    \/ e.time = f.time /\ e.priority = f.priority /\ e.eid < f.eid

QueueHead(q) == CHOOSE e \in q : \A f \in q \ {e} : Before(e, f)

TaskIndex(tasks, id) == CHOOSE i \in 1..Len(tasks) : tasks[i].task_id = id

\* the _check of simpy.AnyOf: the first processed event triggers the condition
CheckAnyOf(w, id, t) ==
    IF w.cond[id].triggered THEN w
    ELSE Schedule([w EXCEPT !.cond[id].count = @ + 1, !.cond[id].triggered = TRUE],
                  t, NORMAL, "AllOf", id, TRUE, "")

\* Condition._check, for the condition of process id
Check(w, id, t) ==
    IF w.cond[id].triggered THEN w
    ELSE IF w.cond[id].count + 1 = w.cond[id].n
    THEN Schedule([w EXCEPT !.cond[id].count = @ + 1, !.cond[id].triggered = TRUE],
                  t, NORMAL, "AllOf", id, TRUE, "")
    ELSE [w EXCEPT !.cond[id].count = @ + 1]

\* Condition.__init__ that only subscribes: an event processed already is
\* never counted
SubscribeOnly(w, id, pred_events, t) ==
    [w EXCEPT !.cev = [p \in DOMAIN w.cev |->
        IF Contains(pred_events, p) /\ ~w.cev[p].processed
        THEN [w.cev[p] EXCEPT !.callbacks = Append(@, id)]
        ELSE w.cev[p]]]

\* Condition.__init__: check the processed events, subscribe to the others
RECURSIVE Subscribe(_, _, _, _)
Subscribe(w, id, pred_events, t) ==
    IF pred_events = <<>> THEN w
    ELSE With(IF w.cev[Head(pred_events)].processed THEN Check(w, id, t)
              ELSE [w EXCEPT !.cev[Head(pred_events)].callbacks = Append(@, id)],
              LAMBDA w1 : Subscribe(w1, id, Tail(pred_events), t))

\* simpy.AllOf(env, pred_events)
AllOf(w, id, pred_events, t) ==
    With([w EXCEPT !.cond[id] = [created |-> TRUE, n |-> Len(pred_events),
                                 count |-> 0, triggered |-> FALSE]],
         LAMBDA w1 : Subscribe(w1, id, pred_events, t))

\* Process._resume when the generator raises
ProcessRaises(w, id, t, error) ==
    Schedule([w EXCEPT !.pc[id] = "Failed"], t, NORMAL, "Process", id, FALSE, error)

-----------------------------------------------------------------------------
(* metrics.py: MetricsCollector.record_task_completion *)

OrZero(v) == IF v = None THEN 0 ELSE v

\* ScheduledTask.actual_duration
actual_duration(task) ==
    IF task.actual_start # None /\ task.actual_end # None
    THEN task.actual_end - task.actual_start ELSE None

\* record_task_completion putting the newest completion first in the order
record_task_completion_first(w, task) ==
    [w EXCEPT !.metrics = Put(@, task.task_id,
                              [task_id |-> task.task_id, actual_start |-> task.actual_start,
                               actual_end |-> task.actual_end]),
              !.order = <<task.task_id>> \o @]

\* MetricsCollector.record_task_completion
record_task_completion(w, task) ==
    LET duration == OrZero(actual_duration(task))
        start == OrZero(task.actual_start)
        end == OrZero(task.actual_end)
        m == [task_id |-> task.task_id, node_id |-> task.node_id,
              scheduled_start |-> task.scheduled_start,
              scheduled_end |-> task.scheduled_end,
              scheduled_duration |-> task.scheduled_duration,
              actual_start |-> start, actual_end |-> end,
              actual_duration |-> duration,
              uplink_time |-> task.uplink_time,
              compute_time |-> task.compute_time,
              downlink_time |-> task.downlink_time,
              start_delta |-> start - task.scheduled_start,
              end_delta |-> end - task.scheduled_end,
              duration_delta |-> duration - task.scheduled_duration]
    IN [w EXCEPT !.metrics = Put(@, task.task_id, m),
                 !.order = Append(@, task.task_id)]

-----------------------------------------------------------------------------
(* scheduler.py: DAGScheduler._execute_task, one operator per stretch of    *)
(* the generator between two suspension points                              *)

SeqMax(ts) == CHOOSE x \in {ts[k] : k \in 1..Len(ts)} : \A k \in 1..Len(ts) : ts[k] <= x

RECURSIVE SeqSum(_)
SeqSum(ts) == IF ts = <<>> THEN 0 ELSE Head(ts) + SeqSum(Tail(ts))

\* lines 166-175 without the data_size > 0 test: every predecessor is queried
TransferTimeFromAny(w, task, pred_id) ==
    With(get_data_from_predecessor(task_definitions, w.idmap, pred_id, task.task_id),
         LAMBDA data_size :
            With(get_transfer_time(graph, link_map,
                                   w.tasks[TaskIndex(w.tasks, pred_id)].node_id,
                                   task.node_id, data_size),
                 LAMBDA tt : IF ~tt.ok THEN tt
                             ELSE IF data_size > 0 THEN Ok(<<tt.value>>) ELSE Ok(<<>>)))

\* lines 164-175: the transfer times of the predecessors that owe data
\* lines 166-175 for one predecessor: <<>>, or its transfer time if it owes data
TransferTimeFrom(w, task, pred_id) ==
    With(get_data_from_predecessor(task_definitions, w.idmap, pred_id, task.task_id),
         LAMBDA data_size :
            IF data_size > 0
            THEN With(get_transfer_time(graph, link_map,
                                        w.tasks[TaskIndex(w.tasks, pred_id)].node_id,
                                        task.node_id, data_size),
                      LAMBDA tt : IF tt.ok THEN Ok(<<tt.value>>) ELSE tt)
            ELSE Ok(<<>>))

RECURSIVE TransferTimes(_, _, _)
TransferTimes(w, task, preds) ==
    IF preds = <<>> THEN Ok(<<>>)
    ELSE With(TransferTimeFrom(w, task, Head(preds)), LAMBDA first :
           IF ~first.ok THEN first
           ELSE With(TransferTimes(w, task, Tail(preds)), LAMBDA rest :
                  IF rest.ok THEN Ok(first.value \o rest.value) ELSE rest))

\* lines 178-179, summing instead of taking the maximum
UplinkOfSum(transfer_times) ==
    IF transfer_times # <<>> THEN SeqSum(transfer_times) ELSE 0

\* lines 162, 178-179
UplinkOf(transfer_times) ==
    IF transfer_times # <<>> THEN SeqMax(transfer_times) ELSE 0

\* lines 196-202 without line 199: the completion event is never triggered
FinishNoSignal(w, id, t) ==
    With([w EXCEPT !.tasks[TaskIndex(w.tasks, id)].actual_end = t], LAMBDA w1 :
      With(record_task_completion(w1, w1.tasks[TaskIndex(w1.tasks, id)]), LAMBDA w3 :
        Schedule([w3 EXCEPT !.pc[id] = "Completed"], t, NORMAL, "Process", id, TRUE, "")))

\* line 199 without line 197: the signal is given, actual_end is not written
FinishSignalOnly(w, id, t) ==
    With([w EXCEPT !.cev[id].triggered = TRUE], LAMBDA w1 :
      With(Schedule(w1, t, NORMAL, "Completion", id, TRUE, ""), LAMBDA w2 :
        Schedule([w2 EXCEPT !.pc[id] = "Completed"], t, NORMAL, "Process", id, TRUE, "")))

\* lines 196-202: the compute hold is over
Finish(w, id, t) ==
    With([w EXCEPT !.tasks[TaskIndex(w.tasks, id)].actual_end = t,
                   !.cev[id].triggered = TRUE], LAMBDA w1 :
      With(Schedule(w1, t, NORMAL, "Completion", id, TRUE, ""), LAMBDA w2 :
        With(record_task_completion(w2, w2.tasks[TaskIndex(w2.tasks, id)]), LAMBDA w3 :
          Schedule([w3 EXCEPT !.pc[id] = "Completed"], t, NORMAL, "Process", id, TRUE, ""))))

\* lines 188-194 on a node that shares its capacity among the tasks computing
\* on it
HoldForComputeShared(w, id, t) ==
    With(get_compute_time(nodes, w.tasks[TaskIndex(w.tasks, id)].node_id,
             task_definitions[get_base_task_id(w.idmap, id)].compute_cost,
             base_compute_speed),
         LAMBDA ct :
            IF ~ct.ok THEN ProcessRaises(w, id, t, ct.error)
            ELSE With(1 + Cardinality({k \in 1..Len(w.tasks) :
                            /\ w.pc[w.tasks[k].task_id] = "Computing"
                            /\ w.tasks[k].node_id = w.tasks[TaskIndex(w.tasks, id)].node_id}),
                      LAMBDA sharing :
                 Schedule([w EXCEPT !.tasks[TaskIndex(w.tasks, id)].compute_time =
                                        ct.value * sharing,
                                    !.pc[id] = "Computing"],
                          t + ct.value * sharing, NORMAL, "Timeout", id, TRUE, "")))

\* lines 188-194: hold for the compute time of the task on its node
HoldForCompute(w, id, t) ==
    With(get_compute_time(nodes, w.tasks[TaskIndex(w.tasks, id)].node_id,
             task_definitions[get_base_task_id(w.idmap, id)].compute_cost,
             base_compute_speed),
         LAMBDA ct :
            IF ~ct.ok THEN ProcessRaises(w, id, t, ct.error)
            ELSE Schedule([w EXCEPT !.tasks[TaskIndex(w.tasks, id)].compute_time = ct.value,
                                    !.pc[id] = "Computing"],
                          t + ct.value, NORMAL, "Timeout", id, TRUE, ""))

\* lines 185-194 without line 185: actual_start stays the end of the wait
ComputeKeepStart(w, id, t) == HoldForCompute(w, id, t)

\* lines 185-194: record the start, hold for the compute time
Compute(w, id, t) ==
    With([w EXCEPT !.tasks[TaskIndex(w.tasks, id)].actual_start = t], LAMBDA w1 :
        HoldForCompute(w1, id, t))

\* lines 181-185 with the transfer also charged to the task's downlink_time
HoldForUplinkChargingDownlink(w, id, t, uplink_time) ==
    With([w EXCEPT !.tasks[TaskIndex(w.tasks, id)].uplink_time = uplink_time,
                   !.tasks[TaskIndex(w.tasks, id)].downlink_time = uplink_time],
         LAMBDA w1 :
            IF uplink_time > 0
            THEN Schedule([w1 EXCEPT !.pc[id] = "Transferring"],
                          t + uplink_time, NORMAL, "Timeout", id, TRUE, "")
            ELSE Compute(w1, id, t))

\* lines 181-185 recording the uplink time without holding for it
RecordUplinkOnly(w, id, t, uplink_time) ==
    With([w EXCEPT !.tasks[TaskIndex(w.tasks, id)].uplink_time = uplink_time], LAMBDA w1 :
        Compute(w1, id, t))

\* lines 181-185: record the uplink time and hold for it, if it is positive
HoldForUplink(w, id, t, uplink_time) ==
    With([w EXCEPT !.tasks[TaskIndex(w.tasks, id)].uplink_time = uplink_time], LAMBDA w1 :
        IF uplink_time > 0
        THEN Schedule([w1 EXCEPT !.pc[id] = "Transferring"],
                      t + uplink_time, NORMAL, "Timeout", id, TRUE, "")
        ELSE Compute(w1, id, t))

\* lines 162-179: the uplink time from the transfer times
Uplink(w, id, t, tts) ==
    IF ~tts.ok THEN ProcessRaises(w, id, t, tts.error)
    ELSE With(UplinkOf(tts.value), LAMBDA uplink_time : HoldForUplink(w, id, t, uplink_time))

\* lines 163-175, with the ids that _get_data_from_predecessor caches
TransferFrom(w, id, t, preds) ==
    With(TransferTimes(w, w.tasks[TaskIndex(w.tasks, id)], preds), LAMBDA tts :
      With([w EXCEPT !.idmap = Cached(Cached(@, preds), <<id>>)], LAMBDA w1 :
        Uplink(w1, id, t, tts)))

\* lines 160-183: the predecessor wait is over; hold for the uplink time
Transfer(w, id, t) ==
    With([w EXCEPT !.tasks[TaskIndex(w.tasks, id)].actual_start = t], LAMBDA w1 :
      With(get_predecessors(task_definitions, w.tasks, w.idmap, id), LAMBDA preds :
        TransferFrom(w1, id, t, preds)))

\* lines 149-158 without the wait
NoWaitForPredecessors(w, id, t, predecessors) == Transfer(w, id, t)

\* lines 149-158: wait for the completion events of the predecessors, if any
WaitForPredecessors(w, id, t, predecessors) ==
    With(SelectSeq(predecessors, LAMBDA p : p \in DOMAIN w.cev), LAMBDA pred_events :
        IF predecessors # <<>> /\ pred_events # <<>>
        THEN AllOf([w EXCEPT !.pc[id] = "WaitingForPredecessors"], id, pred_events, t)
        ELSE Transfer(w, id, t))

\* lines 139-144 letting a task without definition end silently
StartSkipUndefined(w, id, t) ==
    IF get_base_task_id(w.idmap, id) \notin DOMAIN task_definitions
    THEN Schedule([w EXCEPT !.idmap = Cached(@, <<id>>), !.pc[id] = "Completed"],
                  t, NORMAL, "Process", id, TRUE, "")
    ELSE With([w EXCEPT !.idmap = Cached(@, <<id>>)], LAMBDA w1 :
           With(get_predecessors(task_definitions, w.tasks, w.idmap, id), LAMBDA preds :
             WaitForPredecessors(w1, id, t, preds)))

\* lines 139-158: the start of the generator
Start(w, id, t) ==
    IF get_base_task_id(w.idmap, id) \notin DOMAIN task_definitions
    THEN ProcessRaises([w EXCEPT !.idmap = Cached(@, <<id>>)], id, t,
                       "ValueError: No task definition found")
    ELSE With([w EXCEPT !.idmap = Cached(@, <<id>>)], LAMBDA w1 :
           With(get_predecessors(task_definitions, w.tasks, w.idmap, id), LAMBDA preds :
             WaitForPredecessors(w1, id, t, preds)))

-----------------------------------------------------------------------------
(* loaders.py: load_dag.  A DAG document is                                 *)
(*   node_weights: sequence of <<task id, compute cost>>     (dict order)   *)
(*   edges:        sequence of <<task id, successor ids>>    (dict order)   *)
(*   edge_weights: <<source id, target id>> -> bytes                        *)

\* lines 53-57: the sources of the edges into task_id, in document order
RECURSIVE PredecessorsOf(_, _)
PredecessorsOf(edges, task_id) ==
    IF edges = <<>> THEN <<>>
    ELSE LET src == Head(edges)[1]
             hits == SelectSeq(Head(edges)[2], LAMBDA dst : dst = task_id)
         IN [k \in 1..Len(hits) |-> src] \o PredecessorsOf(Tail(edges), task_id)

\* edges.get(task_id, [])
SuccessorsOf(edges, task_id) ==
    IF \E k \in 1..Len(edges) : edges[k][1] = task_id
    THEN edges[CHOOSE k \in 1..Len(edges) : edges[k][1] = task_id][2]
    ELSE <<>>

\* edge_weights.get(task_id, {})
EdgeWeightsOf(edge_weights, task_id) ==
    [dst \in {k[2] : k \in {k \in DOMAIN edge_weights : k[1] = task_id}}
        |-> edge_weights[<<task_id, dst>>]]

load_dag(doc) ==
    [task_id \in {doc.node_weights[k][1] : k \in 1..Len(doc.node_weights)} |->
        [task_id |-> task_id,
         compute_cost |->
             doc.node_weights[CHOOSE k \in 1..Len(doc.node_weights) :
                                  doc.node_weights[k][1] = task_id][2],
         successors |-> SuccessorsOf(doc.edges, task_id),
         predecessors |-> PredecessorsOf(doc.edges, task_id),
         edge_weights |-> EdgeWeightsOf(doc.edge_weights, task_id)]]

\* loaders.py: load_schedule, one entry of "schedule"
ScheduledTask(task_id, node_id, start, end, duration) ==
    [task_id |-> task_id, node_id |-> node_id,
     scheduled_start |-> start, scheduled_end |-> end, scheduled_duration |-> duration,
     actual_start |-> None, actual_end |-> None,
     uplink_time |-> 0, compute_time |-> 0, downlink_time |-> 0]

-----------------------------------------------------------------------------
(* Topology inputs *)

MaxLinks == 3

MaxDataUnits == 2

DataUnit == 125000

NodeIds == {"A", "B", "C"}

\* "X" is a node id no topology file declares as a node
AnyNodeIds == NodeIds \cup {"X"}

LinkChoices ==
    { NetworkLink("A", "B", 1), NetworkLink("B", "A", 4),
      NetworkLink("B", "C", 2), NetworkLink("C", "A", 2),
      NetworkLink("A", "C", 0), NetworkLink("A", "A", 2),
      NetworkLink("B", "B", 0), NetworkLink("C", "X", 1) }

RECURSIVE SeqsUpTo(_, _)
SeqsUpTo(S, n) ==
    IF n = 0 THEN {<<>>}
    ELSE LET shorter == SeqsUpTo(S, n - 1) IN
         shorter \cup {Append(s, x) : s \in {t \in shorter : Len(t) = n - 1}, x \in S}

DataSizes == {k * DataUnit : k \in 0..MaxDataUnits}

NoQuery == [op |-> "none", source |-> "", target |-> "", bytes |-> 0,
            result |-> Ok(None)]

-----------------------------------------------------------------------------
(* Replay inputs *)

NumBase == 3

MaxEdges == 2

MaxCost == 2

BaseIndexes == 0..(NumBase - 1)

\* the DAG edges a document may hold, as index pairs: chain, join, fork,
\* a back edge closing a cycle and a self-dependency
EdgeChoices == {<<0, 1>>, <<1, 2>>, <<0, 2>>, <<1, 0>>, <<0, 0>>}

EdgeSets == {E \in SUBSET EdgeChoices : Cardinality(E) <= MaxEdges}

ReplayDataSizes == {0, DataUnit}

\* compute costs of T0, T1, ...: the k-th rotation of 0, 1, ..., MaxCost
CostProfile(k) == [i \in BaseIndexes |-> (i + k) % (MaxCost + 1)]

IndexSeq == [k \in 1..NumBase |-> k - 1]

DagDocument(E, wt, k) ==
    [node_weights |-> [j \in 1..NumBase |-> <<Tid(j - 1), CostProfile(k)[j - 1]>>],
     edges |-> [j \in 1..NumBase |->
                  <<Tid(j - 1),
                    LET succ == SelectSeq(IndexSeq, LAMBDA d : <<j - 1, d>> \in E)
                    IN [m \in 1..Len(succ) |-> Tid(succ[m])]>>],
     edge_weights |-> [key \in {<<Tid(e[1]), Tid(e[2])>> : e \in E} |->
                          wt[CHOOSE e \in E : <<Tid(e[1]), Tid(e[2])>> = key]]]

\* the scheduled ids, in schedule order
ScheduleShapes ==
    { [k \in 1..NumBase |-> Tid(k - 1)],
      [k \in 1..NumBase |-> Tid(NumBase - k)],
      [k \in 1..NumBase |-> WithSuffix(Tid(k - 1), <<"c", "1">>)],
      [k \in 1..NumBase |-> IF k = 1 THEN Tid(0)
                            ELSE WithSuffix(Tid(k - 1), <<"c", "1">>)],
      [k \in 1..(NumBase - 1) |-> IF k = 1 THEN Tid(0) ELSE Tid(k)],
      [k \in 1..NumBase |-> IF k = NumBase
                            THEN WithSuffix(Tid(k - 1), <<"x", "1">>)
                            ELSE Tid(k - 1)],
      <<>> }

NodeSeq == <<"A", "B", "C">>

\* the node of the k-th scheduled task
Placements ==
    { [k \in 1..NumBase |-> "A"],
      [k \in 1..NumBase |-> NodeSeq[((k - 1) % 3) + 1]],
      [k \in 1..NumBase |-> IF k = NumBase THEN "B" ELSE "A"] }

\* the last task is assigned to a node the topology does not declare
UnknownPlacement == [k \in 1..NumBase |-> IF k = NumBase THEN "X" ELSE "A"]

ReplayTopologies ==
    { [nodes |-> [n \in NodeIds |-> IF n = "B" THEN 2 ELSE 1],
       links |-> <<NetworkLink("A", "B", 8), NetworkLink("B", "C", 4)>>],
      [nodes |-> [n \in NodeIds |-> 1],
       links |-> <<NetworkLink("A", "B", 8), NetworkLink("B", "C", 8),
                   NetworkLink("C", "A", 2)>>],
      [nodes |-> [n \in NodeIds |-> 1],
       links |-> <<NetworkLink("A", "A", 8), NetworkLink("B", "A", 4)>>],
      [nodes |-> [n \in NodeIds |-> IF n = "C" THEN 0 ELSE 1],
       links |-> <<NetworkLink("A", "B", 0), NetworkLink("B", "C", 8)>>] }

Schedule0(shape, place, defs) ==
    [k \in 1..Len(shape) |->
        LET base == ParseBaseTaskId(shape[k])
            cost == IF base \in DOMAIN defs THEN defs[base].compute_cost ELSE 0
        IN ScheduledTask(shape[k], place[k], 0, cost * TicksPerUnit, cost * TicksPerUnit)]

-----------------------------------------------------------------------------
(* The state after DAGSimulation.load() and setup(), and DAGScheduler()     *)

Constructed(sched) ==
    /\ scheduled_tasks = sched
    /\ task_id_map = EmptyMap
    /\ completion_events = EmptyMap
    /\ conditions = [id \in ScheduledIds(sched) |->
                        [created |-> FALSE, n |-> 0, count |-> 0, triggered |-> FALSE]]
    /\ pc = [id \in ScheduledIds(sched) |-> "Pending"]
    /\ now = 0
    /\ queue = {}
    /\ eid = 0
    /\ task_metrics = EmptyMap
    /\ completion_order = <<>>
    /\ run_state = "constructed"
    /\ makespan = None
    /\ run_error = ""

\* the two-task replay: T0 -> T1, costs 10 and 5, 1,000,000 bytes on the edge,
\* T0 on A and T1 on B, nodes of speed multiplier 1, one link A-B of bandwidth
\* 8,000,000, base compute speed 1
ScenarioDag ==
    [node_weights |-> <<<<Tid(0), 10>>, <<Tid(1), 5>>>>,
     edges |-> <<<<Tid(0), <<Tid(1)>>>>>>,
     edge_weights |-> [key \in {<<Tid(0), Tid(1)>>} |-> 1000000]]

ScenarioTopology ==
    [nodes |-> [n \in {"A", "B"} |-> 1],
     links |-> <<NetworkLink("A", "B", 8000000)>>]

ScenarioSchedule ==
    <<ScheduledTask(Tid(0), "A", 0, 10 * TicksPerUnit, 10 * TicksPerUnit),
      ScheduledTask(Tid(1), "B", 11 * TicksPerUnit, 16 * TicksPerUnit, 5 * TicksPerUnit)>>

\* DAGSimulation.load() and setup() on given documents
Loaded(dag, topo, sched) ==
    /\ task_definitions = dag
    /\ base_compute_speed = 1
    /\ nodes = topo.nodes
    /\ links = topo.links
    /\ graph = build_graph(topo.nodes, topo.links).graph
    /\ link_map = build_graph(topo.nodes, topo.links).link_map
    /\ query = NoQuery
    /\ Constructed(sched)

Init ==
    \/ \E E \in EdgeSets, k \in 0..MaxCost, shape \in ScheduleShapes,
          place \in Placements, topo \in ReplayTopologies :
         \E wt \in [E -> ReplayDataSizes] :
           Loaded(load_dag(DagDocument(E, wt, k)), topo,
                  Schedule0(shape, place, load_dag(DagDocument(E, wt, k))))
    \/ Loaded(load_dag(ScenarioDag), ScenarioTopology, ScenarioSchedule)
    \/ \E E \in EdgeSets, topo \in ReplayTopologies :
         \E wt \in [E -> ReplayDataSizes] :
           Loaded(load_dag(DagDocument(E, wt, 1)), topo,
                  Schedule0([k \in 1..NumBase |-> Tid(k - 1)], UnknownPlacement,
                            load_dag(DagDocument(E, wt, 1))))

\* the longest scheduled id asked of _get_base_task_id
MaxIdLen == 4

\* the characters of a scheduled id: a letter, the separator, the marker, a
\* digit and a character no identifier holds
IdChars == {"T", "_", "c", "6", "-"}

IdChoices == SeqsUpTo(IdChars, MaxIdLen)

\* a scheduler with an empty id cache
IdInit ==
    Loaded(EmptyMap, [nodes |-> EmptyMap, links |-> <<>>], <<>>)

\* a dag.json whose node_weights name the tasks of N only, each of cost 1,
\* and whose edges are E, every edge carrying one data unit
DagDocumentOn(N, E) ==
    [node_weights |-> LET ids == SelectSeq(IndexSeq, LAMBDA i : i \in N)
                      IN [j \in 1..Len(ids) |-> <<Tid(ids[j]), 1>>],
     edges |-> LET srcs == SelectSeq(IndexSeq, LAMBDA i : \E e \in E : e[1] = i)
               IN [j \in 1..Len(srcs) |->
                     <<Tid(srcs[j]),
                       LET succ == SelectSeq(IndexSeq, LAMBDA d : <<srcs[j], d>> \in E)
                       IN [m \in 1..Len(succ) |-> Tid(succ[m])]>>],
     edge_weights |-> [key \in {<<Tid(e[1]), Tid(e[2])>> : e \in E} |-> DataUnit]]

DagDocuments ==
    {DagDocumentOn(N, E) :
        N \in SUBSET BaseIndexes,
        E \in {F \in SUBSET (BaseIndexes \X BaseIndexes) : Cardinality(F) <= MaxEdges}}

\* nothing loaded yet
DagInit ==
    Loaded(EmptyMap, [nodes |-> EmptyMap, links |-> <<>>], <<>>)

TopoInit ==
    /\ nodes = [n \in NodeIds |-> 1]
    /\ links \in SeqsUpTo(LinkChoices, MaxLinks)
    /\ graph = build_graph(nodes, links).graph
    /\ link_map = build_graph(nodes, links).link_map
    /\ query = NoQuery
    /\ task_definitions = EmptyMap
    /\ base_compute_speed = 1
    /\ Constructed(<<>>)

-----------------------------------------------------------------------------
(* scheduler.py: DAGScheduler.run *)

SetWorld(w, t) ==
    /\ scheduled_tasks' = w.tasks
    /\ task_id_map' = w.idmap
    /\ completion_events' = w.cev
    /\ conditions' = w.cond
    /\ pc' = w.pc
    /\ queue' = w.queue
    /\ eid' = w.eid
    /\ task_metrics' = w.metrics
    /\ completion_order' = w.order
    /\ now' = t

RECURSIVE StartProcessesAtScheduledStart(_, _, _)
\* lines 216-218 with each process started at the scheduled_start of its task
StartProcessesAtScheduledStart(w, tasks, t) ==
    IF tasks = <<>> THEN w
    ELSE With(Schedule(w, t + Head(tasks).scheduled_start, URGENT, "Initialize",
                       Head(tasks).task_id, TRUE, ""),
              LAMBDA w1 : StartProcessesAtScheduledStart(w1, Tail(tasks), t))

\* lines 215-218: env.process(...) for each task, in dict order
RECURSIVE StartProcesses(_, _, _)
StartProcesses(w, tasks, t) ==
    IF tasks = <<>> THEN w
    ELSE With(Schedule(w, t, URGENT, "Initialize", Head(tasks).task_id, TRUE, ""),
              LAMBDA w1 : StartProcesses(w1, Tail(tasks), t))

\* lines 210-218
RunStart ==
    /\ run_state = "constructed"
    /\ \E w0 \in {[World EXCEPT !.cev = [id \in ScheduledIds(scheduled_tasks) |->
                     [triggered |-> FALSE, processed |-> FALSE, callbacks |-> <<>>]]]} :
       \E w \in {StartProcesses(w0, scheduled_tasks, now)} : SetWorld(w, now)
    /\ run_state' = "running"
    /\ UNCHANGED <<makespan, run_error, topo_vars, input_vars, query>>

\* env.step() pops the head of the queue and sets env.now
Popped(e) == [World EXCEPT !.queue = @ \ {e}]

\* the process of the popped event resumes and runs to its next yield
Resume(e, Segment(_, _, _)) ==
    \E w0 \in {Popped(e)} : \E w \in {Segment(w0, e.task, e.time)} : SetWorld(w, e.time)

Stepping(kind) ==
    /\ run_state = "running"
    /\ queue # {}
    /\ QueueHead(queue).kind = kind

NoReturn == UNCHANGED <<run_vars, topo_vars, input_vars, query>>

\* Initialize: the process runs from the top of _execute_task
StepInitialize ==
    /\ Stepping("Initialize")
    /\ \E e \in {QueueHead(queue)} : Resume(e, Start)
    /\ NoReturn

\* the AllOf condition: the process resumes after line 158
StepAllOf ==
    /\ Stepping("AllOf")
    /\ \E e \in {QueueHead(queue)} : Resume(e, Transfer)
    /\ NoReturn

\* the uplink timeout: the process resumes after line 183
StepUplinkDone ==
    /\ Stepping("Timeout")
    /\ pc[QueueHead(queue).task] = "Transferring"
    /\ \E e \in {QueueHead(queue)} : Resume(e, Compute)
    /\ NoReturn

\* the compute timeout: the process resumes after line 194
StepComputeDone ==
    /\ Stepping("Timeout")
    /\ pc[QueueHead(queue).task] = "Computing"
    /\ \E e \in {QueueHead(queue)} : Resume(e, Finish)
    /\ NoReturn

RECURSIVE RunChecks(_, _, _)
RunChecks(w, waiting, t) ==
    IF waiting = <<>> THEN w
    ELSE With(Check(w, Head(waiting), t), LAMBDA w1 : RunChecks(w1, Tail(waiting), t))

\* a completion event: its callbacks are the _check of each waiting condition
StepCompletion ==
    /\ Stepping("Completion")
    /\ \E e \in {QueueHead(queue)} :
       \E w1 \in {[Popped(e) EXCEPT !.cev[e.task].processed = TRUE,
                                    !.cev[e.task].callbacks = <<>>]} :
       \E w \in {RunChecks(w1, completion_events[e.task].callbacks, e.time)} :
          SetWorld(w, e.time)
    /\ NoReturn

\* the event of a process whose generator returned: no callbacks
StepProcessEnd ==
    /\ Stepping("Process")
    /\ QueueHead(queue).ok
    /\ \E e \in {QueueHead(queue)} : \E w \in {Popped(e)} : SetWorld(w, e.time)
    /\ NoReturn

\* the event of a process that raised: step() re-raises, run() propagates
StepProcessFailed ==
    /\ Stepping("Process")
    /\ ~QueueHead(queue).ok
    /\ \E e \in {QueueHead(queue)} : \E w \in {Popped(e)} : SetWorld(w, e.time)
    /\ run_state' = "raised"
    /\ run_error' = QueueHead(queue).error
    /\ UNCHANGED <<makespan, topo_vars, input_vars, query>>

ActualEnds(tasks) ==
    {tasks[i].actual_end : i \in {j \in 1..Len(tasks) : tasks[j].actual_end # None}}

SetMin(S) == CHOOSE x \in S : \A y \in S : x <= y

\* max(...) of lines 224-228
SetMax(S) == CHOOSE x \in S : \A y \in S : y <= x

\* lines 221-230 with max(..., default=0.0): a makespan of 0 when no task ended
RunReturnDefaultZero ==
    /\ run_state = "running"
    /\ queue = {}
    /\ run_state' = "returned"
    /\ makespan' = IF ActualEnds(scheduled_tasks) = {} THEN 0
                   ELSE SetMax(ActualEnds(scheduled_tasks))
    /\ run_error' = run_error
    /\ UNCHANGED <<sim_vars, topo_vars, input_vars, query>>

\* lines 221-230: the queue is empty, env.run() returns
RunReturn ==
    /\ run_state = "running"
    /\ queue = {}
    /\ IF ActualEnds(scheduled_tasks) = {}
       THEN /\ run_state' = "raised"
            /\ run_error' = "ValueError: max() arg is an empty sequence"
            /\ makespan' = makespan
       ELSE /\ run_state' = "returned"
            /\ makespan' = SetMax(ActualEnds(scheduled_tasks))
            /\ run_error' = run_error
    /\ UNCHANGED <<sim_vars, topo_vars, input_vars, query>>

QueryPath(a, b) ==
    /\ query = NoQuery
    /\ query' = [op |-> "get_path", source |-> a, target |-> b, bytes |-> 0,
                 result |-> get_path(graph, a, b)]
    /\ UNCHANGED <<topo_vars, input_vars, sim_vars, run_vars>>

QueryTransferTime(a, b, n) ==
    /\ query = NoQuery
    /\ query' = [op |-> "get_transfer_time", source |-> a, target |-> b, bytes |-> n,
                 result |-> get_transfer_time(graph, link_map, a, b, n)]
    /\ UNCHANGED <<topo_vars, input_vars, sim_vars, run_vars>>

\* the events of the earliest instant in the queue
EventsNow(q) == {e \in q : \A f \in q : e.time <= f.time}

\* env.run() with any event of the current instant stepped next
SteppingAny(e, kind) ==
    /\ run_state = "running"
    /\ e.kind = kind

AnyInitialize ==
    \E e \in EventsNow(queue) :
        SteppingAny(e, "Initialize") /\ Resume(e, Start) /\ NoReturn

AnyAllOf ==
    \E e \in EventsNow(queue) :
        SteppingAny(e, "AllOf") /\ Resume(e, Transfer) /\ NoReturn

AnyUplinkDone ==
    \E e \in EventsNow(queue) :
        /\ SteppingAny(e, "Timeout")
        /\ pc[e.task] = "Transferring"
        /\ Resume(e, Compute)
        /\ NoReturn

AnyComputeDone ==
    \E e \in EventsNow(queue) :
        /\ SteppingAny(e, "Timeout")
        /\ pc[e.task] = "Computing"
        /\ Resume(e, Finish)
        /\ NoReturn

\* the callbacks of a processed completion event
Completion(w, id, t) ==
    With([w EXCEPT !.cev[id].processed = TRUE, !.cev[id].callbacks = <<>>], LAMBDA w1 :
        RunChecks(w1, w.cev[id].callbacks, t))

\* a process event: no callbacks
ProcessEvent(w, id, t) == w

AnyCompletion ==
    \E e \in EventsNow(queue) :
        SteppingAny(e, "Completion") /\ Resume(e, Completion) /\ NoReturn

AnyProcessEnd ==
    \E e \in EventsNow(queue) :
        SteppingAny(e, "Process") /\ e.ok /\ Resume(e, ProcessEvent) /\ NoReturn

AnyProcessFailed ==
    \E e \in EventsNow(queue) :
        /\ SteppingAny(e, "Process")
        /\ ~e.ok
        /\ Resume(e, ProcessEvent)
        /\ run_state' = "raised"
        /\ run_error' = e.error
        /\ UNCHANGED <<makespan, topo_vars, input_vars, query>>

\* one call of _get_base_task_id: its result and the cache it leaves
QueryBaseId(id) ==
    /\ query.op = NoQuery.op
    /\ query' = [op |-> "_get_base_task_id", source |-> id, target |-> "", bytes |-> 0,
                 result |-> Ok(get_base_task_id(task_id_map, id))]
    /\ task_id_map' = Cached(task_id_map, <<id>>)
    /\ UNCHANGED <<topo_vars, input_vars, scheduled_tasks, completion_events,
                   conditions, pc, now, queue, eid, task_metrics, completion_order,
                   run_vars>>

\* DAGSimulation.load(): the task definitions of a dag.json
LoadDag(doc) ==
    /\ query.op = NoQuery.op
    /\ query' = [op |-> "load_dag", source |-> doc, target |-> "", bytes |-> 0,
                 result |-> Ok(load_dag(doc))]
    /\ task_definitions' = load_dag(doc)
    /\ UNCHANGED <<topo_vars, base_compute_speed, sim_vars, run_vars>>

vars == <<nodes, links, graph, link_map, query, task_definitions, base_compute_speed,
          scheduled_tasks, task_id_map, completion_events, conditions, pc, now,
          queue, eid, task_metrics, completion_order, run_state, makespan, run_error>>

Next ==
    \/ RunStart
    \/ StepInitialize
    \/ StepAllOf
    \/ StepUplinkDone
    \/ StepComputeDone
    \/ StepCompletion
    \/ StepProcessEnd
    \/ StepProcessFailed
    \/ RunReturn

Spec == Init /\ [][Next]_vars

TopoNext ==
    \/ \E a \in AnyNodeIds, b \in AnyNodeIds : QueryPath(a, b)
    \/ \E a \in AnyNodeIds, b \in AnyNodeIds, n \in DataSizes : QueryTransferTime(a, b, n)

TopoSpec == TopoInit /\ [][TopoNext]_vars

AnyOrderNext ==
    \/ RunStart
    \/ AnyInitialize
    \/ AnyAllOf
    \/ AnyUplinkDone
    \/ AnyComputeDone
    \/ AnyCompletion
    \/ AnyProcessEnd
    \/ AnyProcessFailed
    \/ RunReturn

\* the replay with no order imposed on the events of one instant
AnyOrderSpec == Init /\ [][AnyOrderNext]_vars

DagNext == \E doc \in DagDocuments : LoadDag(doc)

DagSpec == DagInit /\ [][DagNext]_vars

IdNext == \E id \in IdChoices : QueryBaseId(id)

IdSpec == IdInit /\ [][IdNext]_vars

\* env.run(): steps are taken as long as the queue holds an event
FairSpec == Init /\ [][Next]_vars /\ WF_vars(Next)

-----------------------------------------------------------------------------
(* What the claims speak about *)

TaskIds == ScheduledIds(scheduled_tasks)

TaskOf(id) == scheduled_tasks[TaskIndex(scheduled_tasks, id)]

\* the resolved predecessors of a scheduled instance, as a set
ResolvedPreds(id) ==
    LET ps == get_predecessors(task_definitions, scheduled_tasks, task_id_map, id)
    IN {ps[k] : k \in 1..Len(ps)}

IsCompleted(id) == TaskOf(id).actual_end # None

\* the bytes predecessor p owes task id
Owed(p, id) == get_data_from_predecessor(task_definitions, task_id_map, p, id)

OwingPreds(id) == {p \in ResolvedPreds(id) : Owed(p, id) > 0}

TransferOf(p, id) ==
    get_transfer_time(graph, link_map, TaskOf(p).node_id, TaskOf(id).node_id, Owed(p, id))

\* the instant the predecessor wait of a task ended
WaitEnd(id) ==
    IF ResolvedPreds(id) = {} THEN 0
    ELSE CHOOSE x \in {TaskOf(p).actual_end : p \in ResolvedPreds(id)} :
             \A p \in ResolvedPreds(id) : TaskOf(p).actual_end <= x

RECURSIVE AncestorsWithin(_, _)
AncestorsWithin(S, n) ==
    IF n = 0 THEN S
    ELSE AncestorsWithin(S \cup UNION {ResolvedPreds(x) : x \in S}, n - 1)

\* every instance the task waits for, directly or not
Ancestors(id) == AncestorsWithin(ResolvedPreds(id), Cardinality(TaskIds))

Acyclic == \A id \in TaskIds : id \notin Ancestors(id)

\* the inputs hold no error a replay can meet
NoInputError ==
    \A id \in TaskIds :
        /\ ParseBaseTaskId(id) \in DOMAIN task_definitions
        /\ get_compute_time(nodes, TaskOf(id).node_id,
                            task_definitions[ParseBaseTaskId(id)].compute_cost,
                            base_compute_speed).ok
        /\ \A p \in OwingPreds(id) : TransferOf(p, id).ok

RunEnded == run_state \in {"returned", "raised"}

-----------------------------------------------------------------------------
(* C1: a task that has left the predecessor wait (its actual_start is set)  *)
(* has every resolved predecessor completed, its completion event           *)
(* triggered, and started no earlier than that predecessor ended.           *)
C1_StartAfterPredecessors ==
    \A id \in TaskIds :
        TaskOf(id).actual_start # None =>
            \A p \in ResolvedPreds(id) :
                /\ completion_events[p].triggered
                /\ TaskOf(p).actual_end # None
                /\ TaskOf(id).actual_start >= TaskOf(p).actual_end

C1_Witness ==
    /\ run_state = "returned"
    /\ \E id \in TaskIds : \E p \in ResolvedPreds(id) :
          /\ IsCompleted(id)
          /\ TaskOf(p).actual_end > 0
          /\ TaskOf(id).actual_start >= TaskOf(p).actual_end
          /\ Cardinality(ResolvedPreds(id)) = 2

(* C2: for a completed task, actual_end - actual_start is the compute time  *)
(* alone: neither the predecessor wait nor the uplink hold is in it.        *)
C2_DurationIsComputeTime ==
    \A id \in TaskIds :
        IsCompleted(id) =>
            /\ TaskOf(id).actual_start # None
            /\ TaskOf(id).actual_end - TaskOf(id).actual_start = TaskOf(id).compute_time
            /\ actual_duration(TaskOf(id)) = TaskOf(id).compute_time

C2_Witness ==
    \E id \in TaskIds :
        /\ IsCompleted(id)
        /\ TaskOf(id).uplink_time > 0
        /\ TaskOf(id).compute_time > 0
        /\ WaitEnd(id) > 0

(* C3: what run() returns is the largest actual_end of the scheduled tasks, *)
(* and it returns only when the event queue is empty and no process is      *)
(* holding for a transfer or a computation or waiting to be started.        *)
C3_MakespanIsMaxEnd ==
    run_state = "returned" =>
        /\ queue = {}
        /\ \A id \in TaskIds : pc[id] \in {"Completed", "WaitingForPredecessors"}
        /\ \E id \in TaskIds : TaskOf(id).actual_end = makespan
        /\ \A id \in TaskIds : TaskOf(id).actual_end <= makespan

C3_Witness ==
    /\ run_state = "returned"
    /\ \E a \in TaskIds, b \in TaskIds :
          /\ IsCompleted(a)
          /\ IsCompleted(b)
          /\ TaskOf(a).actual_end < TaskOf(b).actual_end

(* C4: when the simulation is quiescent and a scheduled task has not        *)
(* completed, run() does not return a makespan.                             *)
C4_IncompleteIsFatal ==
    run_state = "returned" => \A id \in TaskIds : IsCompleted(id)

\* every scheduled task went through lines 196-202
AllCompleted ==
    \A id \in TaskIds :
        /\ pc[id] = "Completed"
        /\ IsCompleted(id)
        /\ completion_events[id].triggered
        /\ id \in DOMAIN task_metrics

(* C5: with an acyclic resolved predecessor relation and inputs free of     *)
(* errors, every scheduled task completes (actual_end set, completion event *)
(* triggered, metrics recorded) and run() ends with the queue empty; it     *)
(* returns a makespan unless the schedule is empty.                         *)
C5_AcyclicRunsToCompletion ==
    (Acyclic /\ NoInputError) ~>
        (/\ AllCompleted
         /\ queue = {}
         /\ IF TaskIds = {} THEN RunEnded ELSE run_state = "returned")

C5_Witness ==
    /\ Acyclic
    /\ NoInputError
    /\ AllCompleted
    /\ run_state = "returned"
    /\ \E id \in TaskIds : ResolvedPreds(id) # {} /\ TaskOf(id).uplink_time > 0

\* a scheduled task fails the check of lines 139-144
SomeUndefined == \E id \in TaskIds : ParseBaseTaskId(id) \notin DOMAIN task_definitions

(* C6: when a scheduled task's base id has no TaskDefinition, run() does    *)
(* not return: once it has ended, it has ended with an exception.           *)
C6_UndefinedTaskAborts ==
    SomeUndefined =>
        /\ run_state # "returned"
        /\ makespan = None
        /\ (run_state = "running" => queue # {})

C6_Witness ==
    /\ SomeUndefined
    /\ run_state = "raised"
    /\ run_error = "ValueError: No task definition found"
    /\ \E id \in TaskIds : IsCompleted(id)

(* C7: once a task computes, its uplink_time is the largest transfer time   *)
(* from a resolved predecessor owing it bytes (0 without one), and its      *)
(* actual_start is the end of its predecessor wait plus that uplink_time.   *)
C7_UplinkIsMaxTransfer ==
    \A id \in TaskIds :
        pc[id] \in {"Computing", "Completed"} =>
            /\ \A p \in OwingPreds(id) : TransferOf(p, id).value <= TaskOf(id).uplink_time
            /\ IF OwingPreds(id) = {} THEN TaskOf(id).uplink_time = 0
               ELSE \E p \in OwingPreds(id) :
                        TransferOf(p, id).value = TaskOf(id).uplink_time
            /\ TaskOf(id).actual_start = WaitEnd(id) + TaskOf(id).uplink_time

C7_Witness ==
    \E id \in TaskIds : \E p \in OwingPreds(id), q \in OwingPreds(id) :
        /\ IsCompleted(id)
        /\ p # q
        /\ 0 < TransferOf(p, id).value
        /\ TransferOf(p, id).value < TransferOf(q, id).value
        /\ TaskOf(id).uplink_time = TransferOf(q, id).value

-----------------------------------------------------------------------------
(* Topology claims, over the result of a query *)

\* the sum over the hops of a path of get_transfer_time for the hop
RECURSIVE HopSum(_, _)
HopSum(path, n) ==
    IF Len(path) < 2 THEN Ok(0)
    ELSE LET hop == get_transfer_time(graph, link_map, path[1], path[2], n)
             rest == HopSum(Tail(path), n)
         IN IF ~hop.ok THEN hop
            ELSE IF ~rest.ok THEN rest
            ELSE Ok(hop.value + rest.value)

(* C8: between two distinct connected nodes the transfer time is the sum,   *)
(* over the hops of the path get_path returns, of the transfer time of the  *)
(* hop (and it fails exactly when a hop fails).                             *)
C8_TransferIsSumOverPath ==
    (/\ query.op = "get_transfer_time"
     /\ query.source # query.target
     /\ get_path(graph, query.source, query.target).ok) =>
        LET hops == HopSum(get_path(graph, query.source, query.target).value, query.bytes)
        IN /\ query.result.ok = hops.ok
           /\ query.result.ok => query.result.value = hops.value

C8_Witness ==
    /\ query.op = "get_transfer_time"
    /\ query.source # query.target
    /\ get_path(graph, query.source, query.target).ok
    /\ Len(get_path(graph, query.source, query.target).value) = 3
    /\ query.result.ok
    /\ query.result.value > 0

\* the self-loop links loaded for node n, by position in the topology file
SelfLoops(n) == {k \in 1..Len(links) : links[k].source = n /\ links[k].target = n}

(* C9: the transfer time from a node to itself is that of the self-loop     *)
(* link loaded for it (the last one), 0 without one; the graph holds no     *)
(* self-loop edge and no path steps from a node to itself.                  *)
C9_SelfTransfer ==
    /\ (query.op = "get_transfer_time" /\ query.source = query.target) =>
          IF SelfLoops(query.source) = {}
          THEN query.result.ok /\ query.result.value = 0
          ELSE LET last == CHOOSE k \in SelfLoops(query.source) :
                               \A j \in SelfLoops(query.source) : j <= k
                   expected == LinkTransferTime(links[last], query.bytes)
               IN /\ query.result.ok = expected.ok
                  /\ query.result.value = expected.value
    /\ \A n \in graph.nodes : ~Contains(graph.adj[n], n) /\ <<n, n>> \notin DOMAIN graph.edge
    /\ (query.op = "get_path" /\ query.result.ok) =>
          \A k \in 1..(Len(query.result.value) - 1) :
              query.result.value[k] # query.result.value[k + 1]

C9_Witness ==
    /\ query.op = "get_transfer_time"
    /\ query.source = query.target
    /\ SelfLoops(query.source) # {}
    /\ query.result.ok
    /\ query.result.value > 0

(* C10: get_path returns a path only between nodes of the topology's node   *)
(* set; it fails when an endpoint is absent from it.                        *)
C10_PathOnlyBetweenLoadedNodes ==
    (query.op = "get_path" /\ query.result.ok) =>
        /\ query.source \in DOMAIN nodes
        /\ query.target \in DOMAIN nodes

-----------------------------------------------------------------------------
(* The two-task scenario *)

InScenario ==
    /\ task_definitions = load_dag(ScenarioDag)
    /\ links = ScenarioTopology.links
    /\ ScheduledIds(scheduled_tasks) = {Tid(0), Tid(1)}

(* C11: the two-task scenario replays to T0 compute_time = 10, T1           *)
(* uplink_time = 1.0, T1 compute_time = 5 and makespan = 16 time units.     *)
C11_ScenarioMakespan ==
    (InScenario /\ run_state = "returned") =>
        /\ TaskOf(Tid(0)).compute_time = 10 * TicksPerUnit
        /\ TaskOf(Tid(1)).uplink_time = 1 * TicksPerUnit
        /\ TaskOf(Tid(1)).compute_time = 5 * TicksPerUnit
        /\ makespan = 16 * TicksPerUnit

\* what the replay of the scenario yields: the transfer takes 1e-6 time units
C11_ScenarioObserved ==
    (InScenario /\ run_state = "returned") =>
        /\ TaskOf(Tid(0)).compute_time = 10 * TicksPerUnit
        /\ TaskOf(Tid(1)).uplink_time = 1
        /\ TaskOf(Tid(1)).compute_time = 5 * TicksPerUnit
        /\ makespan = 15 * TicksPerUnit + 1

-----------------------------------------------------------------------------
(* Scheduled ids *)

IdentifierChars == {"T", "c", "6", "_"}

\* a non-empty run of letters, digits and underscores
IsIdentifier(t) == t # <<>> /\ \A i \in 1..Len(t) : t[i] \in IdentifierChars

\* the marker character followed by an identifier
IsPartitionTag(t) == Len(t) >= 2 /\ t[1] = "c" /\ IsIdentifier(Tail(t))

Underscores(id) == {i \in 1..Len(id) : id[i] = "_"}

LastUnderscore(id) == CHOOSE i \in Underscores(id) : \A j \in Underscores(id) : j <= i

(* C12: an id maps to the text before its last underscore only when the     *)
(* text after that underscore is the marker 'c' followed by an identifier;  *)
(* every other id maps to itself.                                           *)
C12_BaseIdStripsPartitionTag ==
    query.op = "_get_base_task_id" =>
        IF /\ Underscores(query.source) # {}
           /\ IsPartitionTag(SubSeq(query.source, LastUnderscore(query.source) + 1,
                                    Len(query.source)))
        THEN query.result.value = SubSeq(query.source, 1, LastUnderscore(query.source) - 1)
        ELSE query.result.value = query.source

\* the text after the last underscore of an id, when it starts with the marker
OwnSuffix(id) ==
    IF Underscores(id) # {} /\ LastUnderscore(id) < Len(id)
                           /\ id[LastUnderscore(id) + 1] = "c"
    THEN SubSeq(id, LastUnderscore(id) + 1, Len(id))
    ELSE <<>>

\* the id without its suffix
OwnBase(id) ==
    IF OwnSuffix(id) # <<>> THEN SubSeq(id, 1, LastUnderscore(id) - 1) ELSE id

\* a base predecessor carried into the partition of the instance id
MappedPredecessor(p, id) ==
    IF OwnSuffix(id) # <<>> THEN p \o <<"_">> \o OwnSuffix(id) ELSE p

\* the predecessors of the base TaskDefinition of an instance
BasePredecessors(id) ==
    IF OwnBase(id) \in DOMAIN task_definitions
    THEN {task_definitions[OwnBase(id)].predecessors[k] :
             k \in 1..Len(task_definitions[OwnBase(id)].predecessors)}
    ELSE {}

(* C13: the resolved predecessors of an instance are the predecessors of    *)
(* its base definition, each carrying the instance's own suffix (bare when  *)
(* it has none), that are in the schedule; the instance waits for exactly   *)
(* those, starts at 0 without uplink when none is left, and every one of    *)
(* them is of its own partition.                                            *)
C13_PredecessorsOfOwnPartition ==
    \A id \in TaskIds :
        /\ ResolvedPreds(id) =
               {MappedPredecessor(p, id) : p \in BasePredecessors(id)} \cap TaskIds
        /\ \A q \in ResolvedPreds(id) : OwnSuffix(q) = OwnSuffix(id)
        /\ conditions[id].created =>
               conditions[id].n = Cardinality(ResolvedPreds(id))
        /\ (IsCompleted(id) /\ ResolvedPreds(id) = {}) =>
               /\ ~conditions[id].created
               /\ TaskOf(id).actual_start = 0
               /\ TaskOf(id).uplink_time = 0

C13_Witness ==
    /\ run_state = "returned"
    /\ \E id \in TaskIds :
          /\ OwnSuffix(id) # <<>>
          /\ BasePredecessors(id) \cap TaskIds # {}
          /\ ResolvedPreds(id) = {}
          /\ IsCompleted(id)
          /\ \E p \in BasePredecessors(id) \cap TaskIds :
                 TaskOf(p).actual_end > 0 /\ Owed(p, id) > 0
    /\ \E id \in TaskIds : OwnSuffix(id) # <<>> /\ ResolvedPreds(id) # {}

-----------------------------------------------------------------------------
(* A whole replay as a function of the schedule, in simpy's own order *)

\* env.step() on the world w: the callbacks of the event e
Dispatch(w, e) ==
    IF e.kind = "Initialize" THEN Start(w, e.task, e.time)
    ELSE IF e.kind = "AllOf" THEN Transfer(w, e.task, e.time)
    ELSE IF e.kind = "Timeout" /\ w.pc[e.task] = "Transferring"
    THEN Compute(w, e.task, e.time)
    ELSE IF e.kind = "Timeout" THEN Finish(w, e.task, e.time)
    ELSE IF e.kind = "Completion" THEN Completion(w, e.task, e.time)
    ELSE w

\* env.run(): step until the queue is empty or a failed process event is met
RECURSIVE RunToEnd(_)
RunToEnd(w) ==
    IF w.queue = {} THEN [world |-> w, raised |-> FALSE]
    ELSE With(QueueHead(w.queue), LAMBDA e :
           With([w EXCEPT !.queue = @ \ {e}], LAMBDA w0 :
             IF e.kind = "Process" /\ ~e.ok THEN [world |-> w0, raised |-> TRUE]
             ELSE With(Dispatch(w0, e), LAMBDA w1 : RunToEnd(w1))))

\* the scheduled tasks as the schedule file gave them
AsLoaded(tasks) ==
    [k \in 1..Len(tasks) |->
        [tasks[k] EXCEPT !.actual_start = None, !.actual_end = None,
                         !.uplink_time = 0, !.compute_time = 0]]

\* DAGScheduler(...).run() on the schedule tasks0
Replay(tasks0) ==
    With([tasks |-> tasks0, idmap |-> EmptyMap,
          cev |-> [id \in ScheduledIds(tasks0) |->
                     [triggered |-> FALSE, processed |-> FALSE, callbacks |-> <<>>]],
          cond |-> [id \in ScheduledIds(tasks0) |->
                     [created |-> FALSE, n |-> 0, count |-> 0, triggered |-> FALSE]],
          pc |-> [id \in ScheduledIds(tasks0) |-> "Pending"],
          queue |-> {}, eid |-> 0, metrics |-> EmptyMap, order |-> <<>>],
         LAMBDA w0 : With(StartProcesses(w0, tasks0, 0), LAMBDA w : RunToEnd(w)))

\* what run() returns after the replay r, None when it raises
MakespanOf(r) ==
    IF r.raised \/ ActualEnds(r.world.tasks) = {} THEN None
    ELSE SetMax(ActualEnds(r.world.tasks))

\* the schedule with its entries, hence the processes, in another order
Reordered(tasks, f) == [k \in 1..Len(tasks) |-> tasks[f[k]]]

Orders(n) == {f \in [1..n -> 1..n] : \A i, j \in 1..n : f[i] = f[j] => i = j}

\* the replay r left every task the start and end times the state holds
SameTimes(r) ==
    \A id \in TaskIds :
        /\ r.world.tasks[TaskIndex(r.world.tasks, id)].actual_start = TaskOf(id).actual_start
        /\ r.world.tasks[TaskIndex(r.world.tasks, id)].actual_end = TaskOf(id).actual_end

\* the replays of the schedule of this state, one per order of the processes
Replays ==
    {Replay(Reordered(AsLoaded(scheduled_tasks), f)) : f \in Orders(Len(scheduled_tasks))}

(* C14: replay is deterministic.  Whatever the order in which the events of *)
(* one instant were stepped, a run that has ended gave what the replay of   *)
(* the same inputs gives with the processes created in any other order:     *)
(* the same makespan (or none, when run() raises), and, when a makespan is  *)
(* returned, the same actual_start and actual_end for every task.           *)
C14_ReturnedRunsAgree ==
    RunEnded =>
        \A r \in Replays :
            /\ MakespanOf(r) = makespan
            /\ run_state = "returned" => ~r.raised /\ SameTimes(r)

\* the same for the times left behind by a run that raised: this does not
\* hold, a task stepped at the instant of the failure may or may not have
\* been resumed before run() raised
C14_SameInEveryRun ==
    RunEnded => \A r \in Replays : SameTimes(r) /\ MakespanOf(r) = makespan

C14_Witness ==
    /\ run_state = "returned"
    /\ Cardinality(Replays) > 1
    /\ \E a \in TaskIds, b \in TaskIds :
          /\ a # b
          /\ TaskOf(a).actual_end = TaskOf(b).actual_end
          /\ TaskOf(a).actual_end > 0
          /\ ResolvedPreds(a) # {}
          /\ completion_order[1] = b

-----------------------------------------------------------------------------
(* Loaded task definitions *)

SeqRange(seq) == {seq[k] : k \in 1..Len(seq)}

\* every task id a DAG document may mention
BaseIds == {Tid(i) : i \in BaseIndexes}

(* C15: in the loaded TaskDefinitions, b is a successor of a exactly when b  *)
(* is loaded and has a among its predecessors, and a is a predecessor of b  *)
(* exactly when a is loaded and has b among its successors.                 *)
C15_PredecessorsInverseOfSuccessors ==
    query.op = "load_dag" =>
        /\ \A a \in DOMAIN task_definitions : \A b \in BaseIds :
              b \in SeqRange(task_definitions[a].successors) <=>
                 (/\ b \in DOMAIN task_definitions
                  /\ a \in SeqRange(task_definitions[b].predecessors))
        /\ \A b \in DOMAIN task_definitions : \A a \in BaseIds :
              a \in SeqRange(task_definitions[b].predecessors) <=>
                 (/\ a \in DOMAIN task_definitions
                  /\ b \in SeqRange(task_definitions[a].successors))

\* the same, when every task an edge names is in node_weights
C15_InverseWhenEdgesAreLoaded ==
    (/\ query.op = "load_dag"
     /\ \A k \in 1..Len(query.source.edges) :
           /\ query.source.edges[k][1] \in DOMAIN task_definitions
           /\ SeqRange(query.source.edges[k][2]) \subseteq DOMAIN task_definitions) =>
        /\ \A a \in DOMAIN task_definitions : \A b \in DOMAIN task_definitions :
              b \in SeqRange(task_definitions[a].successors) <=>
                 a \in SeqRange(task_definitions[b].predecessors)

-----------------------------------------------------------------------------
(* Failing calculations *)

\* base speeds, speed multipliers and bandwidths asked of the calculations
SpeedChoices == {-1, 0, 1, 2}

\* the compute-time calculation of a scheduled task
ComputeOf(id) ==
    get_compute_time(nodes, TaskOf(id).node_id,
                     task_definitions[ParseBaseTaskId(id)].compute_cost, base_compute_speed)

\* a failed process event is in the queue
FailurePending == \E e \in queue : e.kind = "Process" /\ ~e.ok

(* C16: get_compute_time is compute_cost / (base_speed * speed_multiplier), *)
(* and raises for an unknown node and for a capacity <= 0; a link's         *)
(* transfer time raises for a bandwidth <= 0.  In a replay a task whose     *)
(* calculation raises goes no further, the failure is raised out of run()   *)
(* at the instant of the calculation, and run() returns no makespan.        *)
C16_FailingCalculationsAbort ==
    /\ \A n \in AnyNodeIds, c \in 0..MaxCost, b \in SpeedChoices :
          LET r == get_compute_time(nodes, n, c, b) IN
          IF n \notin DOMAIN nodes \/ b * nodes[n] <= 0 THEN ~r.ok
          ELSE r.ok /\ r.value * (b * nodes[n]) = c * TicksPerUnit
    /\ \A m \in SpeedChoices, c \in 0..MaxCost, b \in SpeedChoices :
          LET r == NodeComputeTime(m, c, b) IN
          IF b * m <= 0 THEN ~r.ok ELSE r.ok /\ r.value * (b * m) = c * TicksPerUnit
    /\ \A bw \in SpeedChoices, n \in DataSizes :
          LinkTransferTime(NetworkLink("A", "B", bw), n).ok <=> bw > 0
    /\ \A id \in TaskIds :
          /\ pc[id] \in {"Computing", "Completed"} =>
                /\ ComputeOf(id).ok
                /\ \A p \in OwingPreds(id) : TransferOf(p, id).ok
          /\ pc[id] = "Failed" =>
                /\ TaskOf(id).actual_end = None
                /\ run_state # "returned"
                /\ makespan = None
                /\ run_state = "running" => FailurePending
    /\ \A e \in queue : (e.kind = "Process" /\ ~e.ok) => e.time = now

C16_Witness ==
    /\ run_state = "raised"
    /\ run_error \in {"ValueError: Unknown node", "ValueError: invalid capacity",
                       "ValueError: invalid bandwidth"}
    /\ now > 0
    /\ \E id \in TaskIds : pc[id] = "Failed" /\ TaskOf(id).actual_start = now
    /\ \E id \in TaskIds : IsCompleted(id)

-----------------------------------------------------------------------------
(* Metrics *)

CompletedIds == {id \in TaskIds : IsCompleted(id)}

(* C17: the collector holds a record for exactly the completed tasks, the   *)
(* record of a task carrying its times; the completion order lists each     *)
(* completed task once, in non-decreasing order of actual_end.              *)
C17_OneRecordPerCompletedTask ==
    /\ DOMAIN task_metrics = CompletedIds
    /\ \A id \in CompletedIds :
          /\ task_metrics[id].task_id = id
          /\ task_metrics[id].actual_start = TaskOf(id).actual_start
          /\ task_metrics[id].actual_end = TaskOf(id).actual_end
    /\ SeqRange(completion_order) = CompletedIds
    /\ Len(completion_order) = Cardinality(CompletedIds)
    /\ \A i \in 1..Len(completion_order), j \in 1..Len(completion_order) :
          i < j => TaskOf(completion_order[i]).actual_end
                      <= TaskOf(completion_order[j]).actual_end

C17_Witness ==
    /\ RunEnded
    /\ Len(completion_order) >= 2
    /\ CompletedIds # TaskIds
    /\ TaskOf(completion_order[1]).actual_end
          < TaskOf(completion_order[Len(completion_order)]).actual_end
    /\ TaskIndex(scheduled_tasks, completion_order[1])
          > TaskIndex(scheduled_tasks, completion_order[Len(completion_order)])

-----------------------------------------------------------------------------
(* Node capacity *)

\* the largest transfer time owed to a task, from its inputs alone
LongestTransfer(id) ==
    IF OwingPreds(id) = {} THEN 0
    ELSE CHOOSE x \in {TransferOf(p, id).value : p \in OwingPreds(id)} :
             \A p \in OwingPreds(id) : TransferOf(p, id).value <= x

(* C18: the times of a task follow from the ends of its resolved            *)
(* predecessors, its transfer times and the speed of its node alone: it     *)
(* starts computing at the end of its wait plus its longest transfer and    *)
(* ends one compute time later, whatever else computes on its node.         *)
C18_NoNodeCapacity ==
    \A id \in TaskIds :
        /\ pc[id] \in {"Computing", "Completed"} =>
              /\ TaskOf(id).compute_time = ComputeOf(id).value
              /\ TaskOf(id).actual_start = WaitEnd(id) + LongestTransfer(id)
        /\ pc[id] = "Completed" =>
              TaskOf(id).actual_end =
                  WaitEnd(id) + LongestTransfer(id) + ComputeOf(id).value

\* two tasks of one node compute at the same instant, one having started later
C18_Witness ==
    \E a \in TaskIds, b \in TaskIds :
        /\ a # b
        /\ TaskOf(a).node_id = TaskOf(b).node_id
        /\ pc[a] = "Computing"
        /\ pc[b] = "Computing"
        /\ TaskOf(a).actual_start < TaskOf(b).actual_start
        /\ TaskOf(b).actual_start < TaskOf(a).actual_start + TaskOf(a).compute_time
        /\ TaskOf(b).compute_time > 0

-----------------------------------------------------------------------------
(* Start of computing *)

(* C19: the actual_start a completed task ends up with is the instant its   *)
(* last resolved predecessor signalled completion (0 without one) plus its  *)
(* uplink_time, so no earlier than that instant nor than the end of any     *)
(* transfer owed to it; while the transfer is held for, actual_start is     *)
(* still the end of the wait.                                               *)
C19_StartIsPostTransfer ==
    \A id \in TaskIds :
        /\ IsCompleted(id) =>
              /\ TaskOf(id).actual_start = WaitEnd(id) + TaskOf(id).uplink_time
              /\ \A p \in ResolvedPreds(id) :
                    /\ completion_events[p].triggered
                    /\ TaskOf(id).actual_start >= TaskOf(p).actual_end
              /\ \A p \in OwingPreds(id) :
                    TaskOf(id).actual_start >= WaitEnd(id) + TransferOf(p, id).value
        /\ pc[id] = "Transferring" =>
              /\ TaskOf(id).actual_start = WaitEnd(id)
              /\ TaskOf(id).uplink_time > 0

C19_Witness ==
    \E id \in TaskIds : \E p \in ResolvedPreds(id), q \in ResolvedPreds(id) :
        /\ IsCompleted(id)
        /\ TaskOf(p).actual_end < TaskOf(q).actual_end
        /\ TaskOf(id).uplink_time > 0
        /\ TaskOf(id).actual_start = TaskOf(q).actual_end + TaskOf(id).uplink_time

-----------------------------------------------------------------------------
(* Writes of the actual-* fields *)

StartOf(id) == TaskOf(id).actual_start

EndOf(id) == TaskOf(id).actual_end

(* C20: during a replay each of a task's actual_start and actual_end is     *)
(* written exactly once (a field that holds a value keeps it in every       *)
(* step), and only by the step of that task's own process.                  *)
C20_ActualFieldsWrittenOnce ==
    [][\A id \in TaskIds :
          /\ StartOf(id) # None => StartOf(id)' = StartOf(id)
          /\ EndOf(id) # None => EndOf(id)' = EndOf(id)
          /\ (StartOf(id)' # StartOf(id) \/ EndOf(id)' # EndOf(id)) =>
                /\ queue # {}
                /\ QueueHead(queue).task = id]_vars

\* what holds of the writes: actual_end is written once, actual_start is
\* written again only when the uplink hold ends, and both only by the step
\* of the task's own process
C20_EndWrittenOnceByOwner ==
    [][\A id \in TaskIds :
          /\ EndOf(id) # None => EndOf(id)' = EndOf(id)
          /\ (StartOf(id) # None /\ StartOf(id)' # StartOf(id)) =>
                /\ pc[id] = "Transferring"
                /\ StartOf(id)' = StartOf(id) + TaskOf(id).uplink_time
          /\ (StartOf(id)' # StartOf(id) \/ EndOf(id)' # EndOf(id)) =>
                /\ run_state = "running"
                /\ queue # {}
                /\ QueueHead(queue).task = id
                /\ QueueHead(queue).kind \in {"Initialize", "AllOf", "Timeout"}]_vars

-----------------------------------------------------------------------------
(* What a completion signal tells *)

\* the process of the task has been resumed after its wait and has run line
\* 160, whether it went on or raised later (lines 170, 188)
PastTheWait(id) == TaskOf(id).actual_start # None

\* the completion event of the task exists and has been triggered (line 199)
Signalled(id) == id \in DOMAIN completion_events /\ completion_events[id].triggered

(* C21: when the completion signal of a task has fired, its actual_start,   *)
(* uplink_time, compute_time and actual_end are set; a task resumed after   *)
(* its wait, then and ever after, finds the actual_end of each resolved     *)
(* predecessor set, and a signalled task's actual_end never changes.        *)
C21_FieldsSetBeforeSignal ==
    /\ [](\A p \in TaskIds :
            /\ Signalled(p) =>
                  /\ StartOf(p) # None
                  /\ EndOf(p) # None
                  /\ TaskOf(p).uplink_time = LongestTransfer(p)
                  /\ TaskOf(p).compute_time = ComputeOf(p).value
                  /\ EndOf(p) = StartOf(p) + TaskOf(p).compute_time
            /\ PastTheWait(p) =>
                  \A q \in ResolvedPreds(p) :
                      /\ Signalled(q)
                      /\ EndOf(q) # None)
    /\ [][\A p \in TaskIds :
            Signalled(p) => EndOf(p)' = EndOf(p)]_vars

C21_Witness ==
    \E id \in TaskIds : \E q \in ResolvedPreds(id) :
        /\ pc[id] = "Transferring"
        /\ Signalled(q)
        /\ EndOf(q) > 0
        /\ TaskOf(q).uplink_time > 0
        /\ StartOf(id) = EndOf(q)

-----------------------------------------------------------------------------
(* Phases of a task *)

PhaseOrder == <<"Pending", "WaitingForPredecessors", "Transferring", "Computing",
                "Completed">>

\* the position of a phase in the order; a process that raised has left it
PhaseRank(phase) ==
    IF phase = "Failed" THEN Len(PhaseOrder) + 1
    ELSE CHOOSE k \in 1..Len(PhaseOrder) : PhaseOrder[k] = phase

\* the completion events of the task still in the queue
QueuedSignals(q, id) == {e \in q : e.kind = "Completion" /\ e.task = id}

(* C22: in every step the phase of a task stays or moves forward in the     *)
(* order Pending, WaitingForPredecessors, Transferring, Computing,          *)
(* Completed; a task leaves Pending only at time 0; Completed is terminal;  *)
(* the completion signal is fired only on entering Completed, and once      *)
(* fired it stays fired and no second completion event is scheduled.        *)
C22_PhasesInOrder ==
    [][\A id \in TaskIds :
          /\ PhaseRank(pc'[id]) >= PhaseRank(pc[id])
          /\ (pc[id] = "Pending" /\ pc'[id] # "Pending") => now' = 0
          /\ pc[id] = "Completed" => pc'[id] = "Completed"
          /\ (~Signalled(id) /\ Signalled(id)') =>
                /\ pc[id] = "Computing"
                /\ pc'[id] = "Completed"
                /\ Cardinality(QueuedSignals(queue', id)) = 1
          /\ Signalled(id) =>
                /\ Signalled(id)'
                /\ QueuedSignals(queue', id) \subseteq QueuedSignals(queue, id)
          /\ pc'[id] = "Completed" => Signalled(id)']_vars

C22_Witness ==
    /\ now > 0
    /\ \E id \in TaskIds : pc[id] = "Completed" /\ Signalled(id)
    /\ \E id \in TaskIds : pc[id] = "Computing" /\ TaskOf(id).uplink_time > 0
    /\ \E id \in TaskIds : pc[id] = "WaitingForPredecessors"

-----------------------------------------------------------------------------
(* Cyclic predecessor relations *)

\* the tasks on a cycle of the resolved predecessor relation
OnCycle == {id \in TaskIds : id \in Ancestors(id)}

\* the tasks on a cycle and those that wait, directly or not, for one
Suspended == {id \in TaskIds : (Ancestors(id) \cup {id}) \cap OnCycle # {}}

\* the process of the task has been started (its Initialize event is done)
Started(id) ==
    /\ run_state # "constructed"
    /\ \A e \in queue : ~(e.kind = "Initialize" /\ e.task = id)

(* C23: a task on a cycle of the resolved predecessor relation, or waiting  *)
(* directly or not for one, never gets past WaitingForPredecessors: its     *)
(* actual_start and actual_end stay unset, its signal is never fired and it *)
(* gets no metrics record; with inputs free of errors the other tasks all   *)
(* complete and run() ends with the suspended ones still waiting.           *)
C23_CycleSuspendsForever ==
    /\ [](\A id \in Suspended :
            /\ pc[id] = IF Started(id) THEN "WaitingForPredecessors" ELSE "Pending"
            /\ StartOf(id) = None
            /\ EndOf(id) = None
            /\ ~Signalled(id)
            /\ id \notin DOMAIN task_metrics
            /\ id \notin SeqRange(completion_order))
    /\ (Suspended # {} /\ NoInputError) ~>
          /\ RunEnded
          /\ queue = {}
          /\ \A id \in TaskIds \ Suspended : IsCompleted(id) /\ Signalled(id)
          /\ \A id \in Suspended : pc[id] = "WaitingForPredecessors"

C23_Witness ==
    /\ RunEnded
    /\ NoInputError
    /\ \E id \in OnCycle : pc[id] = "WaitingForPredecessors"
    /\ \E id \in Suspended \ OnCycle : pc[id] = "WaitingForPredecessors"
    /\ \E id \in TaskIds \ Suspended : IsCompleted(id) /\ EndOf(id) > 0

-----------------------------------------------------------------------------
(* run_dag_simulation.py: verify_timing *)

\* 0.001, the tolerance of line 136
TimingTolerance == TicksPerUnit \div 1000

Abs(x) == IF x < 0 THEN 0 - x ELSE x

\* line 132
ExpectedDuration(m) == m.uplink_time + m.compute_time + m.downlink_time

\* lines 131-143: the tasks a timing mismatch is counted for
TimingIssues(metrics) ==
    {id \in DOMAIN metrics :
        Abs(ExpectedDuration(metrics[id]) - metrics[id].actual_duration) > TimingTolerance}

\* total_issues of verify_timing
verify_timing(metrics) == Cardinality(TimingIssues(metrics))

(* C24: for every task the collector holds a record of, uplink_time +       *)
(* compute_time + downlink_time is within 0.001 of actual_duration, so      *)
(* verify_timing counts no mismatch.                                        *)
C24_PhasesSumToDuration ==
    /\ \A id \in DOMAIN task_metrics :
          Abs(task_metrics[id].uplink_time + task_metrics[id].compute_time
                + task_metrics[id].downlink_time
                - task_metrics[id].actual_duration) <= TimingTolerance
    /\ verify_timing(task_metrics) = 0

\* what the records do satisfy: the sum exceeds the recorded duration by the
\* uplink time, so a mismatch is counted for the tasks with an uplink > 0.001
C24_SumExceedsByUplink ==
    /\ \A id \in DOMAIN task_metrics :
          ExpectedDuration(task_metrics[id]) - task_metrics[id].actual_duration
              = task_metrics[id].uplink_time
    /\ TimingIssues(task_metrics)
          = {id \in DOMAIN task_metrics : TaskOf(id).uplink_time > TimingTolerance}

-----------------------------------------------------------------------------
(* What a replay leaves alone *)

\* the fields of a ScheduledTask that are input to the replay
InputFields(task) ==
    [task_id |-> task.task_id, node_id |-> task.node_id,
     scheduled_start |-> task.scheduled_start, scheduled_end |-> task.scheduled_end,
     scheduled_duration |-> task.scheduled_duration,
     downlink_time |-> task.downlink_time]

(* C25: no step of a replay changes a task's id, node assignment,           *)
(* scheduled_start/end/duration or downlink_time (which is 0), the          *)
(* TaskDefinitions, the compute nodes, the links or the graph built from    *)
(* them; no ScheduledTask, completion event or metrics record is removed,   *)
(* and a metrics record once stored is unchanged.                           *)
C25_ReplayFrame ==
    [][/\ Len(scheduled_tasks') = Len(scheduled_tasks)
       /\ \A k \in 1..Len(scheduled_tasks) :
             /\ InputFields(scheduled_tasks'[k]) = InputFields(scheduled_tasks[k])
             /\ scheduled_tasks'[k].downlink_time = 0
       /\ task_definitions' = task_definitions
       /\ base_compute_speed' = base_compute_speed
       /\ nodes' = nodes
       /\ links' = links
       /\ graph' = graph
       /\ link_map' = link_map
       /\ DOMAIN completion_events \subseteq DOMAIN completion_events'
       /\ \A id \in DOMAIN task_metrics :
             id \in DOMAIN task_metrics' /\ task_metrics'[id] = task_metrics[id]
       /\ \A k \in 1..Len(completion_order) :
             k <= Len(completion_order') /\ completion_order'[k] = completion_order[k]]_vars

C25_Witness ==
    /\ run_state = "returned"
    /\ Cardinality(DOMAIN task_metrics) > 1
    /\ \E id \in TaskIds :
          /\ IsCompleted(id)
          /\ TaskOf(id).uplink_time > 0
          /\ TaskOf(id).compute_time > 0
          /\ TaskOf(id).downlink_time = 0
          /\ TaskOf(id).scheduled_end # EndOf(id)

-----------------------------------------------------------------------------
(* run_dag_simulation.py: verify_dependencies *)

RECURSIVE CheckPredecessors(_, _, _, _)
\* lines 114-122: the loop over the predecessors of one task; comparing an
\* actual_start that is None with a number raises TypeError
CheckPredecessors(tasks, task, preds, violations) ==
    IF preds = <<>> THEN Ok(violations)
    ELSE IF /\ Head(preds) \in ScheduledIds(tasks)
            /\ tasks[TaskIndex(tasks, Head(preds))].actual_end # None
         THEN IF task.actual_start = None
              THEN Raise("TypeError: '<' not supported between instances of 'NoneType' and 'float'")
              ELSE IF task.actual_start < tasks[TaskIndex(tasks, Head(preds))].actual_end
                   THEN CheckPredecessors(tasks, task, Tail(preds),
                            Append(violations, <<task.task_id, Head(preds)>>))
                   ELSE CheckPredecessors(tasks, task, Tail(preds), violations)
         ELSE CheckPredecessors(tasks, task, Tail(preds), violations)

RECURSIVE CheckTasks(_, _, _, _, _)
\* lines 110-124: the loop over sim.scheduled_tasks
CheckTasks(defs, tasks, idmap, k, violations) ==
    IF k > Len(tasks) THEN Ok(violations)
    ELSE With(CheckPredecessors(tasks, tasks[k],
                  get_predecessors(defs, tasks, idmap, tasks[k].task_id), violations),
              LAMBDA r : IF ~r.ok THEN r ELSE CheckTasks(defs, tasks, idmap, k + 1, r.value))

verify_dependencies(defs, tasks, idmap) == CheckTasks(defs, tasks, idmap, 1, <<>>)

(* C26: in every state run() can leave behind, tasks that never started     *)
(* included, verify_dependencies returns a list of violations and does not  *)
(* raise, and the list is empty when every task completed.                  *)
C26_DependencyCheckNeverRaises ==
    RunEnded =>
        /\ verify_dependencies(task_definitions, scheduled_tasks, task_id_map).ok
        /\ AllCompleted =>
              verify_dependencies(task_definitions, scheduled_tasks, task_id_map).value = <<>>

\* what holds: the check raises exactly when a task that never started has a
\* completed resolved predecessor, and returns no violation otherwise
C26_RaisesOnUnstartedTask ==
    RunEnded =>
        LET r == verify_dependencies(task_definitions, scheduled_tasks, task_id_map) IN
        /\ r.ok <=> ~\E id \in TaskIds : \E p \in ResolvedPreds(id) :
                        StartOf(id) = None /\ EndOf(p) # None
        /\ r.ok => r.value = <<>>

\* run() returned with a never-started task whose predecessor completed
C26_ReturnedWithUnstartedTask ==
    /\ run_state = "returned"
    /\ \E id \in TaskIds : \E p \in ResolvedPreds(id) : StartOf(id) = None /\ EndOf(p) # None

-----------------------------------------------------------------------------
(* Transfers that are not owed *)

\* the volume the task definitions give for the edge between the base tasks
BaseVolume(p, id) ==
    IF ParseBaseTaskId(p) \notin DOMAIN task_definitions THEN 0
    ELSE get_data_to_successor(task_definitions[ParseBaseTaskId(p)], ParseBaseTaskId(id))

\* no transfer of a positive volume can be made between the nodes of the tasks
NoRoute(p, id) ==
    /\ TaskOf(p).node_id # TaskOf(id).node_id
    /\ ~get_transfer_time(graph, link_map, TaskOf(p).node_id, TaskOf(id).node_id,
                          DataUnit).ok

(* C27: the volume a predecessor owes is the one of the edge between the    *)
(* base tasks; a task fails only for an undefined task, a failing compute   *)
(* time or a failing transfer from a predecessor that owes a volume > 0;    *)
(* a task that is owed nothing is never held for a transfer and has         *)
(* uplink_time 0, whatever lies between its node and its predecessors'.     *)
C27_TransferOnlyWhenOwed ==
    \A id \in TaskIds :
        /\ \A p \in ResolvedPreds(id) : Owed(p, id) = BaseVolume(p, id)
        /\ pc[id] = "Failed" =>
              \/ ParseBaseTaskId(id) \notin DOMAIN task_definitions
              \/ ~ComputeOf(id).ok
              \/ \E p \in OwingPreds(id) : ~TransferOf(p, id).ok
        /\ (\A p \in ResolvedPreds(id) : BaseVolume(p, id) = 0) =>
              /\ pc[id] # "Transferring"
              /\ TaskOf(id).uplink_time = 0

C27_Witness ==
    \E id \in TaskIds : \E p \in ResolvedPreds(id) :
        /\ run_state = "returned"
        /\ IsCompleted(id)
        /\ ResolvedPreds(id) # {}
        /\ \A q \in ResolvedPreds(id) : Owed(q, id) = 0
        /\ NoRoute(p, id)
        /\ TaskOf(id).uplink_time = 0
        /\ StartOf(id) = EndOf(p)

-----------------------------------------------------------------------------
(* Routes *)

\* links of positive bandwidth, two of them between the same pair of nodes
RouteLinkChoices ==
    { NetworkLink("A", "B", 1), NetworkLink("B", "A", 4),
      NetworkLink("B", "C", 8), NetworkLink("C", "A", 8),
      NetworkLink("A", "C", 1) }

\* DAGTopology(nodes, links) on these links
RouteInit ==
    /\ nodes = [n \in NodeIds |-> 1]
    /\ links \in SeqsUpTo(RouteLinkChoices, MaxLinks)
    /\ graph = build_graph(nodes, links).graph
    /\ link_map = build_graph(nodes, links).link_map
    /\ query = NoQuery
    /\ task_definitions = EmptyMap
    /\ base_compute_speed = 1
    /\ Constructed(<<>>)

RouteSpec == RouteInit /\ [][TopoNext]_vars

\* the paths of distinct nodes from a to b along edges of the graph
GraphPaths(g, a, b) ==
    {p \in UNION {[1..k -> g.nodes] : k \in 2..Cardinality(g.nodes)} :
        /\ p[1] = a
        /\ p[Len(p)] = b
        /\ \A i \in 1..Len(p), j \in 1..Len(p) : i # j => p[i] # p[j]
        /\ \A i \in 1..(Len(p) - 1) : <<p[i], p[i + 1]>> \in DOMAIN g.edge}

\* the sum of the transfer times of the links the graph holds along a path
RECURSIVE AlongPath(_, _, _)
AlongPath(lm, path, n) ==
    IF Len(path) < 2 THEN 0
    ELSE LinkTransferTime(lm[<<path[1], path[2]>>], n).value
            + AlongPath(lm, Tail(path), n)

\* the paths of distinct nodes from a to b along declared links
DeclaredPaths(ls, a, b) ==
    {p \in UNION {[1..k -> NodeIds] : k \in 2..Cardinality(NodeIds)} :
        /\ p[1] = a
        /\ p[Len(p)] = b
        /\ \A i \in 1..Len(p), j \in 1..Len(p) : i # j => p[i] # p[j]
        /\ \A i \in 1..(Len(p) - 1) : \E k \in 1..Len(ls) :
              {ls[k].source, ls[k].target} = {p[i], p[i + 1]}}

\* the shortest transfer time over the declared links between two nodes
FastestLink(ls, u, v, n) ==
    SetMin({LinkTransferTime(ls[k], n).value :
               k \in {j \in 1..Len(ls) : {ls[j].source, ls[j].target} = {u, v}}})

RECURSIVE AlongDeclared(_, _, _)
AlongDeclared(ls, path, n) ==
    IF Len(path) < 2 THEN 0
    ELSE FastestLink(ls, path[1], path[2], n) + AlongDeclared(ls, Tail(path), n)

\* a transfer between distinct connected nodes has been asked for
RouteAsked ==
    /\ query.op = "get_transfer_time"
    /\ query.source # query.target
    /\ get_path(graph, query.source, query.target).ok

(* C28: between distinct connected nodes, all links of positive bandwidth,  *)
(* get_transfer_time is the minimum over all paths between the two nodes of *)
(* the sum of the per-link transfer times, a path being free to use any     *)
(* declared link.                                                           *)
C28_RouteIsDelayOptimal ==
    RouteAsked =>
        /\ query.result.ok
        /\ query.result.value =
              SetMin({AlongDeclared(links, p, query.bytes) :
                         p \in DeclaredPaths(links, query.source, query.target)})

(* C28, for the links the graph holds (of the links declared between two    *)
(* nodes, the one declared last): get_transfer_time is the minimum over the *)
(* paths of the graph of the sum of the transfer times of their links.      *)
C28_OptimalOverGraphLinks ==
    RouteAsked =>
        /\ query.result.ok
        /\ query.result.value =
              SetMin({AlongPath(link_map, p, query.bytes) :
                         p \in GraphPaths(graph, query.source, query.target)})

\* the route taken has two hops although a direct link exists
C28_Witness ==
    /\ RouteAsked
    /\ query.bytes > 0
    /\ <<query.source, query.target>> \in DOMAIN graph.edge
    /\ Len(get_path(graph, query.source, query.target).value) = 3
    /\ query.result.value <
          LinkTransferTime(link_map[<<query.source, query.target>>], query.bytes).value

-----------------------------------------------------------------------------
(* The static longest-path recurrence *)

RECURSIVE StaticEndWithin(_, _)
\* end(t) = max over the resolved predecessors p of end(p) (0 without one)
\*          + longest owed transfer to t + compute time of t,
\* from the task definitions, the topology and the node assignment alone
StaticEndWithin(id, depth) ==
    IF depth = 0 THEN 0
    ELSE (IF ResolvedPreds(id) = {} THEN 0
          ELSE SetMax({StaticEndWithin(p, depth - 1) : p \in ResolvedPreds(id)}))
         + LongestTransfer(id) + ComputeOf(id).value

StaticEnd(id) == StaticEndWithin(id, Cardinality(TaskIds))

(* C29: on an acyclic schedule free of input errors the replay agrees with  *)
(* the static longest-path recurrence: a completed task's actual_end is     *)
(* the largest actual_end of its resolved predecessors (0 without one)      *)
(* plus its uplink_time and compute_time, which is the value of the         *)
(* recurrence, and the makespan returned is the largest such value.         *)
C29_ReplayIsLongestPath ==
    (Acyclic /\ NoInputError) =>
        /\ \A id \in TaskIds :
              IsCompleted(id) =>
                  /\ EndOf(id) = WaitEnd(id) + TaskOf(id).uplink_time
                                    + TaskOf(id).compute_time
                  /\ EndOf(id) = StaticEnd(id)
        /\ run_state = "returned" =>
              makespan = SetMax({StaticEnd(id) : id \in TaskIds})

C29_Witness ==
    /\ Acyclic
    /\ NoInputError
    /\ run_state = "returned"
    /\ \E id \in TaskIds : \E p \in ResolvedPreds(id), q \in ResolvedPreds(id) :
          /\ EndOf(p) < EndOf(q)
          /\ TaskOf(id).uplink_time > 0
          /\ TaskOf(id).compute_time > 0
          /\ makespan = StaticEnd(q) + TaskOf(id).uplink_time + TaskOf(id).compute_time

-----------------------------------------------------------------------------
(* Symmetry of the transfer time *)

\* the same query with its endpoints exchanged
QueryBack ==
    get_transfer_time(graph, link_map, query.target, query.source, query.bytes)

Reversed(s) == [k \in 1..Len(s) |-> s[Len(s) + 1 - k]]

(* C30: get_transfer_time(a, b, bytes) and get_transfer_time(b, a, bytes)   *)
(* both fail or return the same value, for any two node ids and any byte    *)
(* count.                                                                   *)
C30_TransferTimeSymmetric ==
    query.op = "get_transfer_time" =>
        /\ QueryBack.ok = query.result.ok
        /\ query.result.ok => QueryBack.value = query.result.value

\* a transfer over two hops, answered alike in both directions
C30_Witness ==
    /\ query.op = "get_transfer_time"
    /\ query.source # query.target
    /\ query.bytes > 0
    /\ query.result.ok
    /\ Len(get_path(graph, query.source, query.target).value) = 3
    /\ get_path(graph, query.target, query.source).value
          = Reversed(get_path(graph, query.source, query.target).value)
    /\ QueryBack.value = query.result.value
    /\ QueryBack.value > 0

-----------------------------------------------------------------------------
(* Runs in which no task completes *)

NoneCompleted == \A id \in TaskIds : ~IsCompleted(id)

(* C31: run() returns a number only when some task has actual_end set;     *)
(* a run that has ended with no task completed has ended in an error and    *)
(* returned no makespan; when the schedule is empty or every task is        *)
(* suspended on a cycle, run() ends with the ValueError of max().           *)
C31_NoCompletionIsAnError ==
    /\ [](/\ run_state = "returned" =>
                /\ makespan # None
                /\ \E id \in TaskIds : IsCompleted(id) /\ EndOf(id) = makespan
          /\ (RunEnded /\ NoneCompleted) =>
                /\ run_state = "raised"
                /\ run_error # ""
                /\ makespan = None)
    /\ (Suspended = TaskIds) ~>
          /\ run_state = "raised"
          /\ run_error = "ValueError: max() arg is an empty sequence"
          /\ NoneCompleted

\* every task of a non-empty schedule is suspended and run() has raised
C31_Witness ==
    /\ TaskIds # {}
    /\ Suspended = TaskIds
    /\ \A id \in TaskIds : pc[id] = "WaitingForPredecessors"
    /\ queue = {}
    /\ run_state = "raised"
    /\ run_error = "ValueError: max() arg is an empty sequence"

\* the empty schedule: run() has raised without a single event
C31_EmptyScheduleRaises ==
    /\ TaskIds = {}
    /\ run_state = "raised"
    /\ run_error = "ValueError: max() arg is an empty sequence"

=============================================================================
